---- MODULE Spec2Model ----
(***************************************************************************)
(* A model of the OpenAPI -> Zapier generator: the schema mapper           *)
(* (SchemaMapper), generateAction, generateTrigger, the classification and *)
(* generation loops of generate(), and the pagination loop that            *)
(* generateTrigger emits for polling triggers.                             *)
(***************************************************************************)
EXTENDS Integers, Sequences, FiniteSets, TLC

(***************************************************************************)
(* Bounds of the model.                                                    *)
(***************************************************************************)
MaxPages == 3
MaxLimit == 2

(***************************************************************************)
(* Sequence helpers.                                                       *)
(***************************************************************************)
Range(s) == {s[n] : n \in 1..Len(s)}

Keys(entries) == {entries[n].key : n \in 1..Len(entries)}

\* entries[key] of a JavaScript object kept as an ordered list of entries
Lookup(entries, key) ==
  LET n == CHOOSE m \in 1..Len(entries) : entries[m].key = key
  IN  entries[n]

(***************************************************************************)
(* JSON values (examples and samples).  An object is an ordered list of    *)
(* [key, val] entries (Object.keys order), an array a list of values.      *)
(***************************************************************************)
Undefined == "undefined"

JNull == [k |-> "null", v |-> "", items |-> <<>>]
JPrim(v) == [k |-> "prim", v |-> v, items |-> <<>>]
JArr(items) == [k |-> "arr", v |-> "", items |-> items]
JObj(entries) == [k |-> "obj", v |-> "", items |-> entries]
E(key, val) == [key |-> key, val |-> val]

\* JavaScript truthiness of a value: null, 0, "" and false are falsy
FalsyPrims == {"0", "", "false"}
Truthy(j) == /\ j.k # "null"
             /\ ~(j.k = "prim" /\ j.v \in FalsyPrims)

\* typeof j === 'object' (true of null, arrays and objects)
TypeofObject(j) == j.k \in {"null", "arr", "obj"}
IsArray(j) == j.k = "arr"

(***************************************************************************)
(* Schema nodes, as the parser hands them to the mapper.                   *)
(***************************************************************************)
Schema(type, format, enum, default) ==
  [nul |-> FALSE, type |-> type, format |-> format, enum |-> enum,
   default |-> default, example |-> Undefined,
   hasProps |-> FALSE, properties |-> <<>>, required |-> {}]

NullSchema == [Schema("none", "none", FALSE, Undefined) EXCEPT !.nul = TRUE]
EmptySchema == Schema("none", "none", FALSE, Undefined)

ObjectSchema(props, required) ==
  [Schema("object", "none", FALSE, Undefined) EXCEPT
     !.hasProps = TRUE, !.properties = props, !.required = required]

(***************************************************************************)
(* SchemaMapper                                                            *)
(***************************************************************************)
NoDynamic == [trigger |-> "", value |-> ""]

Field(key, type, default, required) ==
  [key |-> key, type |-> type, default |-> default, required |-> required,
   hasChildren |-> FALSE, children |-> <<>>, dynamic |-> NoDynamic]

fieldType(schema) ==
  IF schema.type = "string"
  THEN IF schema.format = "date" THEN "string"
       ELSE IF schema.format = "date-time" THEN "datetime"
       ELSE "string"
  ELSE IF schema.type \in {"integer", "number"} THEN "number"
  ELSE IF schema.type = "boolean" THEN "boolean"
  ELSE "string"

\* the schema's default is copied only to a field whose type is 'string'
fieldDefaultAlways(schema, type) == schema.default

fieldDefault(schema, type) ==
  IF schema.default # Undefined /\ type = "string" THEN schema.default
  ELSE Undefined

schemaToZapierField(schema, fieldName, isRequired) ==
  IF schema.nul THEN Field(fieldName, "string", Undefined, FALSE)
  ELSE Field(fieldName, fieldType(schema),
             fieldDefault(schema, fieldType(schema)), isRequired)

RECURSIVE parametersToZapierFields(_)
parametersToZapierFields(parameters) ==
  IF parameters = <<>> THEN <<>>
  ELSE LET param == Head(parameters)
       IN  (IF param.in \in {"query", "path"}
            THEN <<schemaToZapierField(param.schema, param.name, param.required)>>
            ELSE <<>>)
           \o parametersToZapierFields(Tail(parameters))

RECURSIVE propertiesToFields(_, _)
propertiesToFields(props, requiredFields) ==
  IF props = <<>> THEN <<>>
  ELSE <<schemaToZapierField(Head(props).val, Head(props).key,
                             Head(props).key \in requiredFields)>>
       \o propertiesToFields(Tail(props), requiredFields)

schemaPropertiesToZapierFields(schema, requiredFields) ==
  IF schema.nul \/ ~schema.hasProps THEN <<>>
  ELSE propertiesToFields(schema.properties, requiredFields)

requestBodyToZapierFields(requestBody) ==
  IF ~requestBody.present \/ requestBody.schema.nul THEN <<>>
  ELSE schemaPropertiesToZapierFields(requestBody.schema,
                                      requestBody.schema.required)

(***************************************************************************)
(* JavaScript object operations on JSON values.                            *)
(***************************************************************************)
JUndefined == [k |-> "undef", v |-> "", items |-> <<>>]

ObjHas(j, key) == j.k = "obj" /\ key \in Keys(j.items)
ObjGet(j, key) == IF ObjHas(j, key) THEN Lookup(j.items, key).val ELSE JUndefined

RECURSIVE DropKeys(_, _)
DropKeys(entries, keys) ==
  IF entries = <<>> THEN <<>>
  ELSE IF Head(entries).key \in keys THEN DropKeys(Tail(entries), keys)
       ELSE <<Head(entries)>> \o DropKeys(Tail(entries), keys)

RECURSIVE KeepKeys(_, _)
KeepKeys(entries, keys) ==
  IF entries = <<>> THEN <<>>
  ELSE IF Head(entries).key \in keys
       THEN <<Head(entries)>> \o KeepKeys(Tail(entries), keys)
       ELSE KeepKeys(Tail(entries), keys)

\* obj[key] = val: replaces in place, or appends a new last key
ObjSet(j, key, val) ==
  IF ObjHas(j, key)
  THEN JObj([n \in 1..Len(j.items) |->
               IF j.items[n].key = key THEN E(key, val) ELSE j.items[n]])
  ELSE JObj(Append(j.items, E(key, val)))

(***************************************************************************)
(* SchemaMapper.extractSample and extractResponseSample                    *)
(***************************************************************************)
\* example.value of an entry of an `examples` map
ExampleValue(ex) == ObjGet(ex, "value")

RECURSIVE structuralSample(_)
RECURSIVE structuralProps(_)
structuralProps(props) ==
  IF props = <<>> THEN <<>>
  ELSE <<E(Head(props).key, structuralSample(Head(props).val))>>
       \o structuralProps(Tail(props))

\* the stand-in generated from the schema's type when there is no example
structuralSample(schema) ==
  IF schema.nul THEN JNull
  ELSE IF schema.example # Undefined THEN JPrim(schema.example)
  ELSE IF schema.type = "none" THEN JNull
  ELSE IF schema.type = "string"
       THEN IF schema.format = "date" THEN JPrim("2025-01-01")
            ELSE IF schema.format = "date-time" THEN JPrim("2025-01-01T00:00:00Z")
            ELSE IF schema.enum THEN JPrim("enum0")
            ELSE JPrim("example")
  ELSE IF schema.type \in {"integer", "number"} THEN JPrim("0")
  ELSE IF schema.type = "boolean" THEN JPrim("false")
  ELSE IF schema.type = "array" THEN JArr(<<>>)
  ELSE IF schema.type = "object"
       THEN IF schema.hasProps THEN JObj(structuralProps(schema.properties))
            ELSE JObj(<<>>)
  ELSE JNull

extractSample(schema, examples) ==
  LET first == IF examples = <<>> THEN JUndefined ELSE examples[1].val IN
  IF examples # <<>> /\ Truthy(first) /\ ExampleValue(first).k # "undef"
  THEN ExampleValue(first)
  ELSE IF examples # <<>> /\ Truthy(first) /\ TypeofObject(first)
          /\ ExampleValue(first).k = "undef"
  THEN first
  ELSE structuralSample(schema)

extractResponseSample(response) ==
  IF ~response.present \/ response.schema.nul THEN JNull
  ELSE LET first == IF response.examples = <<>> THEN JUndefined
                    ELSE response.examples[1].val IN
       IF response.examples # <<>> /\ Truthy(first)
          /\ ExampleValue(first).k # "undef"
       THEN ExampleValue(first)
       ELSE extractSample(response.schema, response.examples)

(***************************************************************************)
(* Configuration objects (actions-config.json, triggers-config.json).      *)
(***************************************************************************)
NoSimplify ==
  [enabled |-> FALSE, hasFlatten |-> FALSE, arrayField |-> "", itemSchema |-> "",
   publicName |-> "", hasAdditional |-> FALSE, additionalProperties |-> <<>>,
   extractSingle |-> FALSE]

NoActionConfig ==
  [omit |-> FALSE, hideQueryParams |-> {}, hideRequestBodyProperties |-> {},
   hasFieldDefaults |-> FALSE, fieldDefaults |-> <<>>, simplify |-> NoSimplify,
   helperFields |-> <<>>, dynamicFields |-> <<>>]

Helper(key, mapTo, type, sourceTrigger) ==
  [key |-> key, mapTo |-> mapTo, type |-> type, sourceTrigger |-> sourceTrigger,
   valueField |-> ""]

DynamicField(key, sourceTrigger, valueField) ==
  [key |-> key, sourceTrigger |-> sourceTrigger, valueField |-> valueField]

\* publicName.toLowerCase().replace(/\s+/g, '_')
ParentKey(publicName) ==
  IF publicName = "Group" THEN "group"
  ELSE IF publicName = "New Item" THEN "new_item"
  ELSE publicName

isSimplified(cfg) == cfg.simplify.enabled
usesFlatten(cfg) == isSimplified(cfg) /\ cfg.simplify.hasFlatten
usesPublicName(cfg) == usesFlatten(cfg) /\ cfg.simplify.publicName # ""

\* schemas[itemSchemaName] of the component registry, NullSchema when missing
ItemSchema(schemas, name) ==
  IF name \in Keys(schemas) THEN Lookup(schemas, name).val ELSE NullSchema

(***************************************************************************)
(* generateAction: the input fields                                        *)
(***************************************************************************)
WithoutKeys(fields, hidden) ==
  SelectSeq(fields, LAMBDA f : f.key \notin hidden)

pathParams(endpoint) == SelectSeq(endpoint.parameters, LAMBDA p : p.in = "path")
queryParams(endpoint) == SelectSeq(endpoint.parameters, LAMBDA p : p.in = "query")

unfilteredQueryParams(endpoint, cfg) == queryParams(endpoint)

visibleQueryParams(endpoint, cfg) ==
  SelectSeq(queryParams(endpoint), LAMBDA p : p.name \notin cfg.hideQueryParams)

paramFields(endpoint, cfg) ==
  parametersToZapierFields(pathParams(endpoint) \o visibleQueryParams(endpoint, cfg))

\* the parent object field of simplify.flattenArray.publicName
parentField(publicName, children) ==
  [key |-> ParentKey(publicName), type |-> "object", default |-> Undefined,
   required |-> TRUE, hasChildren |-> TRUE, children |-> children,
   dynamic |-> NoDynamic]

flattenedFields(cfg, schemas) ==
  LET itemSchema == ItemSchema(schemas, cfg.simplify.itemSchema)
      itemFields == schemaPropertiesToZapierFields(itemSchema, itemSchema.required)
  IN  IF itemSchema.nul \/ ~itemSchema.hasProps THEN <<>>
      ELSE IF cfg.simplify.publicName # ""
      THEN <<parentField(cfg.simplify.publicName,
                         WithoutKeys(itemFields, cfg.hideRequestBodyProperties))>>
      ELSE itemFields

invalidAdditional(endpoint, cfg) ==
  SelectSeq(cfg.simplify.additionalProperties,
            LAMBDA n : n \notin Keys(endpoint.requestBody.schema.properties))

\* the simplify.additionalProperties check throws
additionalThrows(endpoint, cfg) ==
  /\ endpoint.requestBody.present
  /\ usesFlatten(cfg)
  /\ cfg.simplify.hasAdditional
  /\ \/ endpoint.requestBody.schema.nul
     \/ ~endpoint.requestBody.schema.hasProps
     \/ invalidAdditional(endpoint, cfg) # <<>>

additionalFields(endpoint, cfg) ==
  IF cfg.simplify.hasAdditional
  THEN SelectSeq(requestBodyToZapierFields(endpoint.requestBody),
                 LAMBDA f : /\ f.key \in Range(cfg.simplify.additionalProperties)
                            /\ f.key # cfg.simplify.arrayField)
  ELSE <<>>

hideChildren(fields, hidden) ==
  [n \in 1..Len(fields) |->
     IF fields[n].hasChildren
     THEN [fields[n] EXCEPT !.children = WithoutKeys(fields[n].children, hidden)]
     ELSE fields[n]]

bodyFields(endpoint, cfg, schemas) ==
  LET raw == IF usesFlatten(cfg)
             THEN flattenedFields(cfg, schemas) \o additionalFields(endpoint, cfg)
             ELSE requestBodyToZapierFields(endpoint.requestBody)
  IN  WithoutKeys(hideChildren(raw, cfg.hideRequestBodyProperties),
                  cfg.hideRequestBodyProperties)

\* path and query fields, then the body fields whose key no parameter has
fieldsAfterBody(endpoint, cfg, schemas) ==
  LET params == paramFields(endpoint, cfg)
  IN  IF endpoint.requestBody.present
      THEN params \o WithoutKeys(bodyFields(endpoint, cfg, schemas), Keys(params))
      ELSE params

(***************************************************************************)
(* generateAction: helper fields                                           *)
(***************************************************************************)
\* the binding "sourceTrigger.valueField" (valueField defaults to 'id'), made
\* only when the named trigger is a key of the trigger configuration
binding(sourceTrigger, valueField, triggerKeys) ==
  IF sourceTrigger # "" /\ sourceTrigger \in triggerKeys
  THEN [trigger |-> sourceTrigger,
        value |-> IF valueField = "" THEN "id" ELSE valueField]
  ELSE NoDynamic

helperField(h, triggerKeys) ==
  [Field(h.key, IF h.type = "" THEN "string" ELSE h.type, Undefined, FALSE)
     EXCEPT !.dynamic = binding(h.sourceTrigger, h.valueField, triggerKeys)]

helperFields(hs, triggerKeys) ==
  [n \in 1..Len(hs) |-> helperField(hs[n], triggerKeys)]

\* position of the grouped parent field among the input fields, 0 if none
parentIndex(fields, cfg) ==
  LET found == {n \in 1..Len(fields) :
                  /\ fields[n].key = ParentKey(cfg.simplify.publicName)
                  /\ fields[n].hasChildren}
  IN  IF usesPublicName(cfg) /\ found # {}
      THEN CHOOSE n \in found : \A m \in found : n <= m
      ELSE 0

\* the helpers that are added as children of the grouped parent field
nestedHelpers(fields, cfg, schemas) ==
  LET itemSchema == ItemSchema(schemas, cfg.simplify.itemSchema)
      itemProps == IF ~itemSchema.nul /\ itemSchema.hasProps
                   THEN Keys(itemSchema.properties) ELSE {}
  IN  IF parentIndex(fields, cfg) = 0 THEN <<>>
      ELSE SelectSeq(cfg.helperFields,
                     LAMBDA h : h.mapTo # "" /\ h.mapTo \in itemProps)

fieldsAfterHelpers(fields, cfg, schemas, triggerKeys) ==
  LET nested == nestedHelpers(fields, cfg, schemas)
      p == parentIndex(fields, cfg)
      withChildren ==
        IF nested = <<>> THEN fields
        ELSE [fields EXCEPT ![p].children = @ \o helperFields(nested, triggerKeys)]
      existing == Keys(fields) \cup Keys(nested)
      top == SelectSeq(cfg.helperFields, LAMBDA h : h.key \notin existing)
  IN  withChildren \o helperFields(top, triggerKeys)

(***************************************************************************)
(* generateAction: fieldDefaults                                           *)
(***************************************************************************)
\* the fieldDefaults keys that name none of the (top-level) input fields
invalidDefaults(fields, cfg) ==
  IF cfg.hasFieldDefaults
  THEN SelectSeq(cfg.fieldDefaults, LAMBDA d : d.key \notin Keys(fields))
  ELSE <<>>

\* a configured default is set only on a field whose type is 'string'
configDefaultAlways(field, cfg) ==
  IF cfg.hasFieldDefaults /\ field.key \in Keys(cfg.fieldDefaults)
  THEN [field EXCEPT !.default = Lookup(cfg.fieldDefaults, field.key).val]
  ELSE field

configDefault(field, cfg) ==
  IF /\ cfg.hasFieldDefaults
     /\ field.key \in Keys(cfg.fieldDefaults)
     /\ field.type = "string"
  THEN [field EXCEPT !.default = Lookup(cfg.fieldDefaults, field.key).val]
  ELSE field

fieldsAfterDefaults(fields, cfg) ==
  [n \in 1..Len(fields) |-> configDefault(fields[n], cfg)]

(***************************************************************************)
(* generateAction: dynamicFields wiring                                    *)
(***************************************************************************)
wire(field, cfg, triggerKeys) ==
  IF field.key \in Keys(cfg.dynamicFields)
     /\ binding(Lookup(cfg.dynamicFields, field.key).sourceTrigger,
                Lookup(cfg.dynamicFields, field.key).valueField,
                triggerKeys) # NoDynamic
  THEN [field EXCEPT !.dynamic =
          binding(Lookup(cfg.dynamicFields, field.key).sourceTrigger,
                  Lookup(cfg.dynamicFields, field.key).valueField, triggerKeys)]
  ELSE field

fieldsAfterWiring(fields, cfg, triggerKeys) ==
  IF cfg.dynamicFields = <<>> THEN fields
  ELSE [n \in 1..Len(fields) |->
          [wire(fields[n], cfg, triggerKeys) EXCEPT
             !.children = [m \in 1..Len(fields[n].children) |->
                             wire(fields[n].children[m], cfg, triggerKeys)]]]

RECURSIVE AllChildren(_)
AllChildren(fields) ==
  IF fields = <<>> THEN <<>>
  ELSE Head(fields).children \o AllChildren(Tail(fields))

\* the source triggers of dropped bindings, each reported by console.warn
droppedBindings(fields, cfg, triggerKeys) ==
  LET present == Keys(fields) \cup Keys(AllChildren(fields))
      refs == {x \in Range(cfg.dynamicFields) \cup Range(cfg.helperFields) :
                 x.key \in present /\ x.sourceTrigger # ""}
  IN  {x.sourceTrigger : x \in refs} \ triggerKeys

(***************************************************************************)
(* generateAction: generateFieldCode, the emitted field definitions        *)
(***************************************************************************)
Emitted(key, type, default, children, dynamic) ==
  [key |-> key, type |-> type, default |-> default, children |-> children,
   dynamic |-> dynamic]

emittedDefault(field) ==
  IF field.default \notin {Undefined, "null"} /\ field.type = "string"
  THEN field.default ELSE Undefined

emittedChild(child) ==
  Emitted(child.key, child.type, emittedDefault(child), <<>>, child.dynamic)

\* children are emitted instead of the type only when there is at least one
emittedShape(field) ==
  IF field.hasChildren /\ Len(field.children) > 0
  THEN [type |-> Undefined,
        children |-> [m \in 1..Len(field.children) |->
                        emittedChild(field.children[m])]]
  ELSE [type |-> field.type, children |-> <<>>]

\* the top-level `dynamic` is written only by generateFieldCodeWithDynamic,
\* which runs only when the action has a dynamicFields configuration
generateFieldCode(field, cfg) ==
  Emitted(field.key, emittedShape(field).type, emittedDefault(field),
          emittedShape(field).children,
          IF cfg.dynamicFields # <<>> THEN field.dynamic ELSE NoDynamic)

inputFieldsCode(fields, cfg) ==
  [n \in 1..Len(fields) |-> generateFieldCode(fields[n], cfg)]

(***************************************************************************)
(* generateAction: the sample                                              *)
(***************************************************************************)
NoResponse == [present |-> FALSE, schema |-> NullSchema, examples |-> <<>>]
Response(schema, examples) ==
  [present |-> TRUE, schema |-> schema, examples |-> examples]

\* responses['200'] || responses['201'] || responses['204']
successResponse(endpoint) ==
  IF endpoint.responses.r200.present THEN endpoint.responses.r200
  ELSE IF endpoint.responses.r201.present THEN endpoint.responses.r201
  ELSE endpoint.responses.r204

is204Response(endpoint) ==
  /\ endpoint.responses.r204.present
  /\ ~endpoint.responses.r200.present
  /\ ~endpoint.responses.r201.present

Sample204 == JObj(<<E("success", JPrim("true")), E("status", JPrim("204"))>>)

responseSample(endpoint) ==
  IF is204Response(endpoint) THEN Sample204
  ELSE extractResponseSample(successResponse(endpoint))

SensitiveFields ==
  {"password", "passwd", "pwd", "secret", "token", "apiKey", "api_key"}

Thrown == [threw |-> TRUE, value |-> JNull]
Returned(j) == [threw |-> FALSE, value |-> j]

\* does the publicName restructuring of the sample apply
restructures(sample, cfg) ==
  /\ usesPublicName(cfg)
  /\ Truthy(sample)
  /\ sample.k = "obj"
  /\ ObjGet(sample, cfg.simplify.arrayField).k = "arr"
  /\ Len(ObjGet(sample, cfg.simplify.arrayField).items) > 0

allowedItemKeys(cfg, schemas) ==
  LET itemSchema == ItemSchema(schemas, cfg.simplify.itemSchema)
  IN  IF ~itemSchema.nul /\ itemSchema.hasProps
      THEN Keys(itemSchema.properties) \ cfg.hideRequestBodyProperties
      ELSE {}

RECURSIVE withAdditional(_, _, _, _)
withAdditional(restructured, props, sample, cfg) ==
  IF props = <<>> THEN restructured
  ELSE LET prop == Head(props)
           next == IF ObjHas(sample, prop)
                   THEN ObjSet(restructured, prop, ObjGet(sample, prop))
                   ELSE IF cfg.hasFieldDefaults /\ prop \in Keys(cfg.fieldDefaults)
                   THEN ObjSet(restructured, prop,
                               JPrim(Lookup(cfg.fieldDefaults, prop).val))
                   ELSE restructured
       IN  withAdditional(next, Tail(props), sample, cfg)

\* { [parentKey]: first item of sample[arrayField], filtered }, plus the
\* additional properties; Object.keys(null) throws
restructured(sample, cfg, schemas) ==
  LET item == ObjGet(sample, cfg.simplify.arrayField).items[1]
      allowed == allowedItemKeys(cfg, schemas)
      filtered == IF item.k # "obj" THEN JObj(<<>>)
                  ELSE IF allowed # {} THEN JObj(KeepKeys(item.items, allowed))
                  ELSE item
      base == JObj(<<E(ParentKey(cfg.simplify.publicName), filtered)>>)
  IN  IF allowed # {} /\ item.k = "null" THEN Thrown
      ELSE Returned(withAdditional(base,
                      IF cfg.simplify.hasAdditional
                      THEN cfg.simplify.additionalProperties ELSE <<>>,
                      sample, cfg))

\* an array gives its first item, a primitive is wrapped, nothing gives {}
sampleObjectOf(sample) ==
  IF Truthy(sample)
  THEN IF IsArray(sample)
       THEN IF Len(sample.items) > 0 THEN sample.items[1] ELSE JObj(<<>>)
       ELSE IF TypeofObject(sample) THEN sample
       ELSE JObj(<<E("value", sample)>>)
  ELSE JObj(<<>>)

\* sensitive and hidden keys are deleted; an object left empty becomes {id: 0}
finishSample(sampleObject, remove) ==
  IF sampleObject.k = "null" THEN Thrown
  ELSE IF sampleObject.k = "obj"
  THEN LET kept == JObj(DropKeys(sampleObject.items, remove))
       IN  Returned(IF kept.items = <<>> THEN JObj(<<E("id", JPrim("0"))>>)
                    ELSE kept)
  ELSE Returned(sampleObject)

actionSample(endpoint, cfg, schemas) ==
  LET sample == responseSample(endpoint)
      shaped == IF restructures(sample, cfg) THEN restructured(sample, cfg, schemas)
                ELSE Returned(sample)
  IN  IF shaped.threw THEN Thrown
      ELSE finishSample(sampleObjectOf(shaped.value),
                        SensitiveFields \cup cfg.hideRequestBodyProperties)

\* getArrayPropertyName reads `value.$ref` of every property: a null property
\* makes it throw a TypeError
arrayPropertyThrows(schema) ==
  /\ ~schema.nul /\ schema.type = "object" /\ schema.hasProps
  /\ \E n \in 1..Len(schema.properties) : schema.properties[n].val.nul

\* mapper.getArrayPropertyName(schema): the first array property, "" for null
getArrayPropertyName(schema) ==
  IF schema.nul \/ schema.type # "object" \/ ~schema.hasProps THEN ""
  ELSE LET arrays == SelectSeq(schema.properties,
                       LAMBDA e : ~e.val.nul /\ e.val.type = "array")
       IN  IF arrays = <<>> THEN "" ELSE arrays[1].key

\* building responseCode throws when the response object has a null property
responseCodeThrows(endpoint) ==
  /\ ~is204Response(endpoint)
  /\ successResponse(endpoint).present
  /\ ~successResponse(endpoint).schema.nul
  /\ successResponse(endpoint).schema.type = "object"
  /\ arrayPropertyThrows(successResponse(endpoint).schema)

\* responseCode: what the emitted perform returns
responseCode(endpoint, cfg) ==
  IF is204Response(endpoint) THEN "return { success: true, status: 204 }"
  ELSE IF successResponse(endpoint).present /\ ~successResponse(endpoint).schema.nul
  THEN IF successResponse(endpoint).schema.type = "array"
       THEN "return Array.isArray(result) ? { <noun>s: result } : result"
       ELSE IF /\ successResponse(endpoint).schema.type = "object"
               /\ getArrayPropertyName(successResponse(endpoint).schema) # ""
               /\ cfg.simplify.extractSingle
       THEN "return response.json.<arrayProperty>[0]"
       ELSE "return response.json"
  ELSE "return Array.isArray(result) ? { data: result } : result"

(***************************************************************************)
(* generateTrigger: input fields, sample and description                   *)
(***************************************************************************)
PlaceholderField == Field("id_placeholder", "string", "placeholder", FALSE)

triggerFields(trigger) ==
  LET visible == WithoutKeys(parametersToZapierFields(trigger.endpoint.parameters),
                             Keys(trigger.queryParams))
  IN  IF trigger.hidden /\ visible = <<>> THEN <<PlaceholderField>> ELSE visible

triggerFieldCode(field) ==
  Emitted(field.key, field.type,
          IF field.default # Undefined /\ field.type = "string"
          THEN field.default ELSE Undefined,
          <<>>, NoDynamic)

triggerFieldsCode(fields) ==
  [n \in 1..Len(fields) |-> triggerFieldCode(fields[n])]

\* responses['200'] || responses['201']
triggerResponse(endpoint) ==
  IF endpoint.responses.r200.present THEN endpoint.responses.r200
  ELSE endpoint.responses.r201

\* the keys of a wrapper object that hold a non-empty array, in key order
arrayKeys(sample) ==
  SelectSeq(sample.items, LAMBDA e : e.val.k = "arr" /\ Len(e.val.items) > 0)

triggerSampleObjectOf(sample) ==
  IF Truthy(sample)
  THEN IF IsArray(sample)
       THEN IF Len(sample.items) > 0 THEN sample.items[1] ELSE JObj(<<>>)
       ELSE IF TypeofObject(sample)
       THEN IF arrayKeys(sample) # <<>> THEN arrayKeys(sample)[1].val.items[1]
            ELSE sample
       ELSE JObj(<<E("value", sample)>>)
  ELSE JObj(<<>>)

IdFieldNames == <<"_id", "ID", "Id", "transaction_id", "item_id", "record_id">>

\* a sample object without `id` gets it from a common id field, or id: 0
withId(obj) ==
  LET found == {n \in 1..Len(IdFieldNames) : ObjHas(obj, IdFieldNames[n])}
  IN  IF ObjHas(obj, "id") THEN obj
      ELSE IF found # {}
      THEN ObjSet(obj, "id",
                  ObjGet(obj, IdFieldNames[CHOOSE n \in found :
                                             \A m \in found : n <= m]))
      ELSE ObjSet(obj, "id", JPrim("0"))

triggerSample(endpoint) ==
  LET finished == finishSample(
                    triggerSampleObjectOf(
                      extractResponseSample(triggerResponse(endpoint))),
                    SensitiveFields)
  IN  IF finished.threw THEN Thrown
      ELSE IF finished.value.k = "obj" THEN Returned(withId(finished.value))
      ELSE finished

(***************************************************************************)
(* Titles and descriptions: a string is a list of tokens, where the token  *)
(* "Triggers when" stands for those 13 characters and " " for one blank.   *)
(***************************************************************************)
RequiredPrefix == <<"Triggers when", " ">>

startsWith(str, prefix) ==
  Len(str) >= Len(prefix) /\ SubSeq(str, 1, Len(prefix)) = prefix

RECURSIVE trimStart(_)
trimStart(str) ==
  IF str # <<>> /\ Head(str) = " " THEN trimStart(Tail(str)) ELSE str

RECURSIVE trimEnd(_)
trimEnd(str) ==
  IF str # <<>> /\ str[Len(str)] = " " THEN trimEnd(SubSeq(str, 1, Len(str) - 1))
  ELSE str

trim(str) == trimEnd(trimStart(str))

endsWithPeriod(str) == str # <<>> /\ str[Len(str)] = "."

HiddenDescription == <<"Hidden trigger for dynamic dropdowns.">>

\* title || endpoint.description || endpoint.summary, ended with a period
triggerDescription(trigger) ==
  LET raw == IF trigger.title # <<>> THEN trigger.title
             ELSE trigger.endpoint.description
  IN  IF trigger.hidden THEN HiddenDescription
      ELSE IF raw # <<>> /\ ~endsWithPeriod(trim(raw)) THEN trim(raw) \o <<".">>
      ELSE raw

(***************************************************************************)
(* generateAction and generateTrigger: what one call returns or throws     *)
(***************************************************************************)
\* endpoint.path.replace(/\//g, '_').replace(/^_/, '')
PathKey(path) ==
  IF path = "/a" THEN "a"
  ELSE IF path = "/b" THEN "b"
  ELSE path

actionKey(endpoint) ==
  IF endpoint.operationId # "" THEN endpoint.operationId
  ELSE PathKey(endpoint.path)

builtFields(endpoint, cfg, schemas, triggerKeys) ==
  fieldsAfterDefaults(
    fieldsAfterHelpers(fieldsAfterBody(endpoint, cfg, schemas),
                       cfg, schemas, triggerKeys),
    cfg)

\* the error generateAction throws for this endpoint and configuration
actionError(endpoint, cfg, schemas, triggerKeys) ==
  IF additionalThrows(endpoint, cfg) THEN "additionalProperties"
  ELSE IF invalidDefaults(
            fieldsAfterHelpers(fieldsAfterBody(endpoint, cfg, schemas),
                               cfg, schemas, triggerKeys), cfg) # <<>>
  THEN "fieldDefaults"
  ELSE IF actionSample(endpoint, cfg, schemas).threw \/ responseCodeThrows(endpoint)
  THEN "TypeError"
  ELSE ""

NoDescriptor ==
  [kind |-> "none", key |-> "", hidden |-> FALSE, description |-> <<>>,
   fields |-> <<>>, inputFields |-> <<>>, sample |-> JNull, path |-> "",
   method |-> ""]

generateAction(endpoint, cfg, schemas, triggerKeys) ==
  LET error == actionError(endpoint, cfg, schemas, triggerKeys)
      fields == fieldsAfterWiring(builtFields(endpoint, cfg, schemas, triggerKeys),
                                  cfg, triggerKeys)
  IN  IF error # ""
      THEN [threw |-> TRUE, error |-> error,
            offending |-> IF error = "fieldDefaults"
                          THEN Keys(invalidDefaults(
                                 fieldsAfterHelpers(
                                   fieldsAfterBody(endpoint, cfg, schemas),
                                   cfg, schemas, triggerKeys), cfg))
                          ELSE {},
            operation |-> endpoint.operationId,
            warnings |-> {}, descriptor |-> NoDescriptor]
      ELSE [threw |-> FALSE, error |-> "", offending |-> {},
            operation |-> endpoint.operationId,
            warnings |-> droppedBindings(fields, cfg, triggerKeys),
            descriptor |->
              [kind |-> "action", key |-> actionKey(endpoint), hidden |-> FALSE,
               description |-> endpoint.description,
               fields |-> fields,
               inputFields |-> inputFieldsCode(fields, cfg),
               sample |-> actionSample(endpoint, cfg, schemas).value,
               path |-> endpoint.path, method |-> endpoint.method]]

\* the array property of a trigger's response is detected from the schema
\* unless the configuration names it
triggerResponseThrows(trigger) ==
  /\ trigger.arrayProperty = ""
  /\ triggerResponse(trigger.endpoint).present
  /\ ~triggerResponse(trigger.endpoint).schema.nul
  /\ arrayPropertyThrows(triggerResponse(trigger.endpoint).schema)

\* queryParams.some(p => p.name === name)
hasQueryParam(endpoint, name) ==
  \E n \in 1..Len(endpoint.parameters) :
    endpoint.parameters[n].in = "query" /\ endpoint.parameters[n].name = name

\* the configured array property, else the one found in the response schema
detectedArrayProp(trigger) ==
  LET response == triggerResponse(trigger.endpoint)
  IN  IF trigger.arrayProperty # "" THEN trigger.arrayProperty
      ELSE IF response.present /\ ~response.schema.nul
      THEN getArrayPropertyName(response.schema)
      ELSE ""

\* the response schema is looked at only when no array property is configured
hasHasMoreProperty(trigger) ==
  LET response == triggerResponse(trigger.endpoint)
  IN  \/ /\ trigger.arrayProperty = ""
         /\ response.present /\ ~response.schema.nul
         /\ response.schema.type = "object" /\ response.schema.hasProps
         /\ "has_more" \in Keys(response.schema.properties)
      \/ /\ hasQueryParam(trigger.endpoint, "limit")
         /\ hasQueryParam(trigger.endpoint, "offset")
         /\ detectedArrayProp(trigger) # ""

shouldUsePagination(trigger) ==
  /\ ~trigger.hidden
  /\ hasQueryParam(trigger.endpoint, "limit")
  /\ hasQueryParam(trigger.endpoint, "offset")
  /\ hasHasMoreProperty(trigger)

PaginationLoop == "while (hasMore) { await z.request(...) }"
SingleRequest == "const response = await z.request(...)"

\* templateData.requestCode
requestCode(trigger) ==
  IF shouldUsePagination(trigger) THEN PaginationLoop ELSE SingleRequest

\* the placeholders of trigger.template.js; the request of the template is
\* written out in it
TriggerTemplate ==
  {"displayLabel", "operationId", "method", "path", "baseUrl", "pathParamsCode",
   "queryParamsCode", "paramsCode", "responseCode", "filterCode", "key", "noun",
   "description", "inputFieldsCode", "sampleCode"}

\* generator.generate('trigger.template.js', templateData): the request of
\* the rendered file
renderedRequest(template, trigger) ==
  IF "requestCode" \in template THEN requestCode(trigger) ELSE SingleRequest

generateTrigger(trigger) ==
  IF triggerSample(trigger.endpoint).threw \/ triggerResponseThrows(trigger)
  THEN [threw |-> TRUE, error |-> "TypeError", offending |-> {},
        operation |-> trigger.key, warnings |-> {}, descriptor |-> NoDescriptor]
  ELSE [threw |-> FALSE, error |-> "", offending |-> {},
        operation |-> trigger.key, warnings |-> {},
        descriptor |->
          [kind |-> "trigger", key |-> trigger.key, hidden |-> trigger.hidden,
           description |-> triggerDescription(trigger),
           fields |-> triggerFields(trigger),
           inputFields |-> triggerFieldsCode(triggerFields(trigger)),
           sample |-> triggerSample(trigger.endpoint).value,
           path |-> trigger.endpoint.path, method |-> trigger.endpoint.method,
           request |-> renderedRequest(TriggerTemplate, trigger)]]

(***************************************************************************)
(* The sample is not a copy: when it is taken from the examples of the     *)
(* response it is the example object of the endpoint, and the deletions    *)
(* and the `id` assignment are made on that object.                        *)
(***************************************************************************)
\* where the sample of a response comes from: the `value` of its first
\* example, the first example itself, or an object built for the occasion
sampleAlias(response) ==
  IF ~response.present \/ response.schema.nul \/ response.examples = <<>>
  THEN "fresh"
  ELSE LET first == response.examples[1].val
       IN  IF Truthy(first) /\ ExampleValue(first).k # "undef" THEN "value"
           ELSE IF Truthy(first) /\ TypeofObject(first) THEN "example"
           ELSE "fresh"

\* the response once its sample object has become `sample`
withSample(response, sample) ==
  IF sampleAlias(response) = "value"
  THEN [response EXCEPT !.examples[1].val = ObjSet(@, "value", sample)]
  ELSE IF sampleAlias(response) = "example"
  THEN [response EXCEPT !.examples[1].val = sample]
  ELSE response

\* an array whose first element has become `first`
withFirst(array, first) == JArr(<<first>> \o Tail(array.items))

\* generateAction: the sample after `delete sampleObject[key]`
sampleAfterAction(sample, remove) ==
  IF IsArray(sample)
  THEN IF Len(sample.items) > 0 /\ sample.items[1].k = "obj"
       THEN withFirst(sample, JObj(DropKeys(sample.items[1].items, remove)))
       ELSE sample
  ELSE IF sample.k = "obj" THEN JObj(DropKeys(sample.items, remove))
  ELSE sample

\* the endpoint generateAction leaves behind
endpointAfterAction(endpoint, cfg, schemas, triggerKeys) ==
  LET response == successResponse(endpoint)
      sample == responseSample(endpoint)
      after == withSample(response,
                 sampleAfterAction(sample,
                   SensitiveFields \cup cfg.hideRequestBodyProperties))
  IN  IF \/ actionError(endpoint, cfg, schemas, triggerKeys) # ""
         \/ is204Response(endpoint)
         \/ ~Truthy(sample)
         \/ restructures(sample, cfg)
      THEN endpoint
      ELSE IF endpoint.responses.r200.present
      THEN [endpoint EXCEPT !.responses.r200 = after]
      ELSE IF endpoint.responses.r201.present
      THEN [endpoint EXCEPT !.responses.r201 = after]
      ELSE endpoint

\* generateTrigger: the sample object after the deletions and `id`
objectAfterTrigger(obj) ==
  LET kept == JObj(DropKeys(obj.items, SensitiveFields))
  IN  IF kept.items = <<>> THEN kept ELSE withId(kept)

sampleAfterTrigger(sample) ==
  IF IsArray(sample)
  THEN IF Len(sample.items) > 0 /\ sample.items[1].k = "obj"
       THEN withFirst(sample, objectAfterTrigger(sample.items[1]))
       ELSE sample
  ELSE IF sample.k = "obj"
  THEN IF arrayKeys(sample) # <<>>
       THEN LET inner == arrayKeys(sample)[1]
            IN  IF inner.val.items[1].k = "obj"
                THEN ObjSet(sample, inner.key,
                            withFirst(inner.val, objectAfterTrigger(inner.val.items[1])))
                ELSE sample
       ELSE objectAfterTrigger(sample)
  ELSE sample

\* the endpoint generateTrigger leaves behind
endpointAfterTrigger(trigger) ==
  LET endpoint == trigger.endpoint
      response == triggerResponse(endpoint)
      sample == extractResponseSample(response)
      after == withSample(response, sampleAfterTrigger(sample))
  IN  IF generateTrigger(trigger).threw \/ ~Truthy(sample) THEN endpoint
      ELSE IF endpoint.responses.r200.present
      THEN [endpoint EXCEPT !.responses.r200 = after]
      ELSE [endpoint EXCEPT !.responses.r201 = after]

\* the classified actions and triggers hold the endpoint objects themselves:
\* a list of endpoints, or of entries with an endpoint, seen after one
\* endpoint object has changed
sameEndpoint(a, b) == a.path = b.path /\ a.method = b.method

endpointsAfter(list, changed) ==
  [n \in 1..Len(list) |->
     IF sameEndpoint(list[n], changed) THEN changed ELSE list[n]]

holdersAfter(list, changed) ==
  [n \in 1..Len(list) |->
     IF sameEndpoint(list[n].endpoint, changed)
     THEN [list[n] EXCEPT !.endpoint = changed]
     ELSE list[n]]

(***************************************************************************)
(* generate(): the state of one run                                        *)
(***************************************************************************)
VARIABLES
  endpoints,        \* parser.extractEndpoints(), in document order
  schemas,          \* parser.getSchemas(), the component registry
  actionConfig,     \* actions-config.json: entries operationId -> config
  triggerConfig,    \* triggers-config.json: entries trigger key -> config
  pc,               \* the loop generate() is in
  idx,              \* the position in that loop
  actions,          \* the classified actions
  triggers,         \* the classified triggers
  addedTriggerKeys, \* the keys of the triggers added so far
  files,            \* the files written to the output directory, in order
  fatal,            \* the error that ended the run, if any
  console           \* the source triggers console.warn reported as missing

genVars == <<endpoints, schemas, actionConfig, triggerConfig, pc, idx, actions,
             triggers, addedTriggerKeys, files, fatal, console>>

\* the state of the pagination loop of a generated polling trigger
VARIABLES
  limit,       \* const limit = bundle.inputData.limit || 100
  offset,      \* let offset = 0
  hasMore,     \* let hasMore = true
  allResults,  \* let allResults = []
  requests,    \* the offsets of the requests issued, in order
  responses,   \* the pages received, in order: [size, has_more]
  ppc          \* where the loop is: "loop", "waiting" or "done"

pageVars == <<limit, offset, hasMore, allResults, requests, responses, ppc>>

\* the state of one run of the perform function of a generated action
VARIABLES
  inputData,    \* bundle.inputData: entries field key -> value
  arrayItem,    \* the `<arrayField>Item` object of a simplified action
  reqBody,      \* the requestBody object
  previous,     \* the request body of the run before this one, if any
  round,        \* how many times perform has been run on this input
  bpc,          \* where perform is: "fields", "helpers", "send", "done", "error"
  responseJson, \* response.json of the request perform has sent
  performed     \* what perform has returned

bodyVars ==
  <<inputData, arrayItem, reqBody, previous, round, bpc, responseJson, performed>>

\* the state of one call of parser.resolveSchema, and of one parser.load
VARIABLES
  registry,     \* the schemas `#/components/schemas/<name>` resolves to
  callStack,    \* the resolveSchema calls in progress, innermost last
  returned,     \* what the call that returned last has returned
  rpc,          \* "call" while resolving, then "done" or "RangeError"
  cacheFile,    \* the file at getCachePath()
  fetchCount,   \* how many times fetch was called
  loadRun,      \* the load in progress: its arguments, position and content
  handed        \* the schemas that were handed to the field mapping

parserVars ==
  <<registry, callStack, returned, rpc, cacheFile, fetchCount, loadRun, handed>>

vars == <<genVars, pageVars, bodyVars, parserVars>>

NoError == [error |-> "", operation |-> "", offending |-> {}]
Fatal(error, operation, offending) ==
  [error |-> error, operation |-> operation, offending |-> offending]

GenConfigUnchanged ==
  UNCHANGED <<schemas, actionConfig, triggerConfig, limit, offset,
              hasMore, allResults, requests, responses, ppc, bodyVars,
              parserVars>>

GenInputsUnchanged == UNCHANGED endpoints /\ GenConfigUnchanged

\* actionConfig.actions?.[endpoint.operationId]
configOf(operationId) ==
  IF operationId # "" /\ operationId \in Keys(actionConfig)
  THEN Lookup(actionConfig, operationId).val
  ELSE NoActionConfig

Trigger(endpoint, key, cfg, hidden) ==
  [endpoint |-> endpoint, key |-> key, title |-> cfg.title,
   arrayProperty |-> cfg.arrayProperty, queryParams |-> cfg.queryParams,
   hidden |-> hidden]

\* the title check of a visible trigger: "" when it passes
titleError(cfg) ==
  IF cfg.hidden THEN ""
  ELSE IF cfg.title = <<>> THEN "missingTitle"
  ELSE IF ~startsWith(cfg.title, RequiredPrefix) THEN "invalidTitle"
  ELSE ""

\* a trigger is added only when its key was not added before
addTriggerAlways(acc, trigger) ==
  [acc EXCEPT !.triggers = Append(@, trigger), !.added = @ \cup {trigger.key}]

addTrigger(acc, trigger) ==
  IF trigger.key \in acc.added THEN acc
  ELSE [acc EXCEPT !.triggers = Append(@, trigger), !.added = @ \cup {trigger.key}]

\* the loop over the trigger configurations for one GET endpoint
RECURSIVE matchTriggers(_, _, _)
matchTriggers(entries, endpoint, acc) ==
  IF entries = <<>> \/ acc.fatal # NoError THEN acc
  ELSE LET key == Head(entries).key
           cfg == Head(entries).val
       IN  IF cfg.endpoint # endpoint.path
           THEN matchTriggers(Tail(entries), endpoint, acc)
           ELSE IF titleError(cfg) # ""
           THEN [acc EXCEPT !.fatal = Fatal(titleError(cfg), key, {"title"})]
           ELSE matchTriggers(Tail(entries), endpoint,
                              addTrigger(acc, Trigger(endpoint, key, cfg, cfg.hidden)))

\* one iteration of the classification loop
ClassifyEndpoint ==
  /\ pc = "classify"
  /\ idx <= Len(endpoints)
  /\ LET endpoint == endpoints[idx]
         cfg == configOf(endpoint.operationId)
         acc == matchTriggers(triggerConfig, endpoint,
                  [triggers |-> triggers, added |-> addedTriggerKeys,
                   fatal |-> NoError])
     IN  IF cfg.omit
         THEN UNCHANGED <<actions, triggers, addedTriggerKeys, fatal, pc>>
         ELSE /\ actions' = Append(actions, [endpoint |-> endpoint,
                                             key |-> endpoint.operationId,
                                             actionConfig |-> cfg])
              /\ IF endpoint.method # "get"
                 THEN UNCHANGED <<triggers, addedTriggerKeys, fatal, pc>>
                 ELSE /\ triggers' = acc.triggers
                      /\ addedTriggerKeys' = acc.added
                      /\ fatal' = acc.fatal
                      /\ pc' = IF acc.fatal # NoError THEN "exit" ELSE pc
  /\ idx' = idx + 1
  /\ UNCHANGED <<files, console>>
  /\ GenInputsUnchanged

ClassifyEndToActions ==
  /\ pc = "classify"
  /\ idx > Len(endpoints)
  /\ pc' = "actions"
  /\ idx' = 1
  /\ UNCHANGED <<actions, triggers, addedTriggerKeys, files, fatal, console>>
  /\ GenInputsUnchanged

\* the first loop is over: the pass over the hidden triggers comes next
ClassifyEnd ==
  /\ pc = "classify"
  /\ idx > Len(endpoints)
  /\ pc' = "hidden"
  /\ idx' = 1
  /\ UNCHANGED <<actions, triggers, addedTriggerKeys, files, fatal, console>>
  /\ GenInputsUnchanged

\* endpoints.find(e => e.path === endpointPath && e.method === 'get')
getEndpoints(path) ==
  SelectSeq(endpoints, LAMBDA e : e.path = path /\ e.method = "get")

\* one iteration of the pass over the hidden triggers of the configuration
HiddenTrigger ==
  /\ pc = "hidden"
  /\ idx <= Len(triggerConfig)
  /\ LET key == triggerConfig[idx].key
         cfg == triggerConfig[idx].val
         acc == addTrigger([triggers |-> triggers, added |-> addedTriggerKeys,
                            fatal |-> NoError],
                           Trigger(getEndpoints(cfg.endpoint)[1], key, cfg, TRUE))
     IN  IF cfg.hidden /\ getEndpoints(cfg.endpoint) # <<>>
         THEN triggers' = acc.triggers /\ addedTriggerKeys' = acc.added
         ELSE UNCHANGED <<triggers, addedTriggerKeys>>
  /\ idx' = idx + 1
  /\ UNCHANGED <<pc, actions, files, fatal, console>>
  /\ GenInputsUnchanged

HiddenEnd ==
  /\ pc = "hidden"
  /\ idx > Len(triggerConfig)
  /\ pc' = "actions"
  /\ idx' = 1
  /\ UNCHANGED <<actions, triggers, addedTriggerKeys, files, fatal, console>>
  /\ GenInputsUnchanged

File(dir, name, descriptor) == [dir |-> dir, name |-> name, descriptor |-> descriptor]

\* one iteration of the action loop: generateAction, then writeFile
GenerateActionFile ==
  /\ pc = "actions"
  /\ idx <= Len(actions)
  /\ LET action == actions[idx]
         result == generateAction(action.endpoint, action.actionConfig, schemas,
                                  Keys(triggerConfig))
     IN  IF result.threw
         THEN /\ fatal' = Fatal(result.error, result.operation, result.offending)
              /\ pc' = "exit"
              /\ UNCHANGED <<files, console>>
         ELSE /\ files' = Append(files, File("actions", action.key, result.descriptor))
              /\ console' = console \cup result.warnings
              /\ UNCHANGED <<fatal, pc>>
  /\ LET changed == endpointAfterAction(actions[idx].endpoint,
                                        actions[idx].actionConfig, schemas,
                                        Keys(triggerConfig))
     IN  /\ endpoints' = endpointsAfter(endpoints, changed)
         /\ actions' = holdersAfter(actions, changed)
         /\ triggers' = holdersAfter(triggers, changed)
  /\ idx' = idx + 1
  /\ UNCHANGED addedTriggerKeys
  /\ GenConfigUnchanged

ActionsEnd ==
  /\ pc = "actions"
  /\ idx > Len(actions)
  /\ pc' = "triggers"
  /\ idx' = 1
  /\ UNCHANGED <<actions, triggers, addedTriggerKeys, files, fatal, console>>
  /\ GenInputsUnchanged

\* one iteration of the trigger loop: generateTrigger, then writeFile
GenerateTriggerFile ==
  /\ pc = "triggers"
  /\ idx <= Len(triggers)
  /\ LET trigger == triggers[idx]
         result == generateTrigger(trigger)
     IN  IF result.threw
         THEN /\ fatal' = Fatal(result.error, result.operation, result.offending)
              /\ pc' = "exit"
              /\ UNCHANGED files
         ELSE /\ files' = Append(files, File("triggers", trigger.key, result.descriptor))
              /\ UNCHANGED <<fatal, pc>>
  /\ LET changed == endpointAfterTrigger(triggers[idx])
     IN  /\ endpoints' = endpointsAfter(endpoints, changed)
         /\ actions' = holdersAfter(actions, changed)
         /\ triggers' = holdersAfter(triggers, changed)
  /\ idx' = idx + 1
  /\ UNCHANGED <<addedTriggerKeys, console>>
  /\ GenConfigUnchanged

\* the loops are over; authentication.js, index.js and the rest are written
TriggersEnd ==
  /\ pc = "triggers"
  /\ idx > Len(triggers)
  /\ pc' = "done"
  /\ UNCHANGED <<idx, actions, triggers, addedTriggerKeys, files, fatal, console>>
  /\ GenInputsUnchanged

(***************************************************************************)
(* The pagination loop generateTrigger emits for a polling trigger.        *)
(* The server is free in what it answers to each request.                  *)
(***************************************************************************)

DefaultLimit == 100

\* the items of the n-th page the server sent
PageItems(n, size) == [j \in 1..size |-> [page |-> n, item |-> j]]

PageSizes == (0..(MaxLimit + 1)) \cup {limit}

\* hasMore = response.json.has_more === true && pageResults.length === limit
continuesEither(page) == page.has_more \/ page.size = limit

continues(page) == page.has_more /\ page.size = limit

\* offset += limit
advancedByOne(at) == at + 1

advanced(at) == at + limit

\* while (hasMore) { ... await z.request({ params: { ...params, offset } })
SendRequest ==
  /\ ppc = "loop"
  /\ hasMore
  /\ Len(requests) < MaxPages
  /\ requests' = Append(requests, offset)
  /\ ppc' = "waiting"
  /\ UNCHANGED <<limit, offset, hasMore, allResults, responses>>
  /\ UNCHANGED <<genVars, bodyVars, parserVars>>

\* the rest of the loop body, run when the response arrives
ReceivePage ==
  /\ ppc = "waiting"
  /\ \E size \in PageSizes, more \in BOOLEAN :
       LET page == [size |-> size, has_more |-> more]
       IN  /\ responses' = Append(responses, page)
           /\ allResults' = IF size > 0
                            THEN allResults \o PageItems(Len(responses) + 1, size)
                            ELSE allResults
           /\ hasMore' = continues(page)
           /\ offset' = IF continues(page) THEN advanced(offset) ELSE offset
  /\ ppc' = "loop"
  /\ UNCHANGED <<limit, requests>>
  /\ UNCHANGED <<genVars, bodyVars, parserVars>>

\* let results = allResults
LoopExit ==
  /\ ppc = "loop"
  /\ ~hasMore
  /\ ppc' = "done"
  /\ UNCHANGED <<limit, offset, hasMore, allResults, requests, responses>>
  /\ UNCHANGED <<genVars, bodyVars, parserVars>>

NoFile == [exists |-> FALSE, content |-> ""]
NoLoad ==
  [pc |-> "idle", url |-> FALSE, forceUpdate |-> FALSE, content |-> "",
   fetched |-> "none", before |-> NoFile, error |-> "", schema |-> "null"]

ParserIdle ==
  /\ registry = <<>> /\ callStack = <<>> /\ returned = "" /\ rpc = "idle"
  /\ cacheFile = NoFile /\ fetchCount = 0 /\ loadRun = NoLoad /\ handed = <<>>

BodyIdle ==
  /\ inputData = <<>> /\ arrayItem = <<>> /\ reqBody = <<>> /\ previous = <<>>
  /\ round = 0 /\ bpc = "idle"
  /\ responseJson = JUndefined /\ performed = JUndefined

PageIdle ==
  /\ limit = 0 /\ offset = 0 /\ hasMore = FALSE /\ allResults = <<>>
  /\ requests = <<>> /\ responses = <<>> /\ ppc = "idle"

GenIdle ==
  /\ endpoints = <<>> /\ schemas = <<>> /\ actionConfig = <<>>
  /\ triggerConfig = <<>> /\ pc = "idle" /\ idx = 0 /\ actions = <<>>
  /\ triggers = <<>> /\ addedTriggerKeys = {} /\ files = <<>>
  /\ fatal = NoError /\ console = {}

PageInit ==
  /\ \E input \in 0..MaxLimit : limit = IF input = 0 THEN DefaultLimit ELSE input
  /\ offset = 0
  /\ hasMore = TRUE
  /\ allResults = <<>>
  /\ requests = <<>>
  /\ responses = <<>>
  /\ ppc = "loop"
  /\ GenIdle
  /\ BodyIdle
  /\ ParserIdle

PageNext == SendRequest \/ ReceivePage \/ LoopExit

SpecPage == PageInit /\ [][PageNext]_vars

(***************************************************************************)
(* Claims about the pagination loop (checked under SpecPage).              *)
(***************************************************************************)
RECURSIVE Accumulated(_)
Accumulated(n) ==
  IF n = 0 THEN <<>>
  ELSE Accumulated(n - 1) \o PageItems(n, responses[n].size)

LastPage == responses[Len(responses)]

ScenarioPages ==
  <<[size |-> 2, has_more |-> TRUE], [size |-> 2, has_more |-> TRUE],
    [size |-> 1, has_more |-> FALSE]>>

Param(name, in, required, schema) ==
  [name |-> name, in |-> in, required |-> required, schema |-> schema]

NoBody == [present |-> FALSE, schema |-> NullSchema]
Body(schema) == [present |-> TRUE, schema |-> schema]

Responses(r200, r201, r204) == [r200 |-> r200, r201 |-> r201, r204 |-> r204]

Endpoint(path, method, operationId, parameters, requestBody, resps) ==
  [path |-> path, method |-> method, operationId |-> operationId,
   description |-> <<"x">>, parameters |-> parameters,
   requestBody |-> requestBody, responses |-> resps]

String == Schema("string", "none", FALSE, Undefined)
StringWithDefault(d) == Schema("string", "none", FALSE, d)
Integer == Schema("integer", "none", FALSE, Undefined)
Array == Schema("array", "none", FALSE, Undefined)

\* components.schemas of the document
Components ==
  <<E("Item", ObjectSchema(<<E("a", StringWithDefault("da")),
                             E("b", Schema("number", "none", FALSE, "0"))>>,
                           {"a"})),
    E("Tagged", ObjectSchema(<<E("a", String), E("b", Integer), E("tags", Array),
                               E("owner", Integer)>>, {})),
    E("NoProps", Schema("object", "none", FALSE, Undefined))>>

ListSchema ==
  ObjectSchema(<<E("items", Array),
                 E("has_more", Schema("boolean", "none", FALSE, Undefined))>>, {})

GetA == Endpoint("/a", "get", "getA",
                 <<Param("limit", "query", FALSE, Integer),
                   Param("offset", "query", FALSE, Integer)>>,
                 NoBody, Responses(Response(ListSchema, <<>>), NoResponse, NoResponse))

PostA == Endpoint("/a", "post", "postA", <<>>,
                  Body(ObjectSchema(<<E("f", String), E("g", Integer)>>, {"f"})),
                  Responses(NoResponse,
                            Response(ObjectSchema(<<E("id", Integer)>>, {}), <<>>),
                            NoResponse))

GetB == Endpoint("/b", "get", "getB", <<>>, NoBody,
                 Responses(Response(Array, <<>>), NoResponse, NoResponse))

DeleteB == Endpoint("/b", "delete", "", <<Param("id", "query", TRUE, Integer)>>,
                    NoBody,
                    Responses(NoResponse, NoResponse,
                              Response(NullSchema, <<>>)))

\* every document made of some of the four operations, in document order
RECURSIVE SubSeqs(_)
SubSeqs(s) ==
  IF s = <<>> THEN {<<>>}
  ELSE LET rest == SubSeqs(Tail(s))
       IN  rest \cup {<<Head(s)>> \o r : r \in rest}

RunDocuments == SubSeqs(<<GetA, PostA, GetB, DeleteB>>) \ {<<>>}

Omit == [NoActionConfig EXCEPT !.omit = TRUE]
Defaults(entries) ==
  [NoActionConfig EXCEPT !.hasFieldDefaults = TRUE, !.fieldDefaults = entries]
Dynamic(entries) == [NoActionConfig EXCEPT !.dynamicFields = entries]

\* the configurations tried for an operation of a run document
RunConfigsOf(operationId) ==
  IF operationId = "getA" THEN {NoActionConfig, Omit}
  ELSE IF operationId = "postA"
  THEN {NoActionConfig, Defaults(<<E("zz", "v")>>),
        Dynamic(<<DynamicField("f", "t1", "")>>),
        Dynamic(<<DynamicField("f", "t2", "name")>>)}
  ELSE {NoActionConfig}

RECURSIVE ConfigChoices(_)
ConfigChoices(ops) ==
  IF ops = <<>> THEN {<<>>}
  ELSE {<<E(Head(ops), c)>> \o rest :
          c \in RunConfigsOf(Head(ops)), rest \in ConfigChoices(Tail(ops))}

OperationIds(doc) ==
  LET named == SelectSeq(doc, LAMBDA e : e.operationId # "")
  IN  [n \in 1..Len(named) |-> named[n].operationId]

TriggerCfg(endpoint, hidden, title) ==
  [endpoint |-> endpoint, hidden |-> hidden, title |-> title,
   arrayProperty |-> "", queryParams |-> <<>>]

Titles ==
  {<<>>,
   <<"Triggers when", " ", "x">>,
   <<"Triggers when", " ", "x", ".">>,
   <<"Triggers when", " ">>,
   <<"x">>}

TriggerPaths == {"/a", "/b", "/c"}

T1Configs ==
  {TriggerCfg(p, TRUE, <<>>) : p \in TriggerPaths}
  \cup {TriggerCfg(p, FALSE, t) : p \in TriggerPaths, t \in Titles}

T2Configs == {TriggerCfg(p, TRUE, <<>>) : p \in TriggerPaths}

RunTriggerConfigs ==
  {<<>>}
  \cup {<<E("t1", c)>> : c \in T1Configs}
  \cup {<<E("t2", c)>> : c \in T2Configs}
  \cup {<<E("t1", c1), E("t2", c2)>> : c1 \in T1Configs, c2 \in T2Configs}

GenStart ==
  /\ pc = "classify" /\ idx = 1 /\ actions = <<>> /\ triggers = <<>>
  /\ addedTriggerKeys = {} /\ files = <<>> /\ fatal = NoError /\ console = {}

\* a run over a document of several operations
RunInit ==
  /\ endpoints \in RunDocuments
  /\ schemas = Components
  /\ actionConfig \in ConfigChoices(OperationIds(endpoints))
  /\ triggerConfig \in RunTriggerConfigs
  /\ GenStart
  /\ PageIdle
  /\ BodyIdle
  /\ ParserIdle

(***************************************************************************)
(* Runs over a single operation, to cover the response shapes and the      *)
(* action configurations.                                                  *)
(***************************************************************************)
Obj1(k1, v1) == JObj(<<E(k1, v1)>>)
Obj2(k1, v1, k2, v2) == JObj(<<E(k1, v1), E(k2, v2)>>)

ExampleValues ==
  {Obj2("id", JPrim("7"), "name", JPrim("n")),
   Obj1("name", JPrim("n")),
   Obj2("_id", JPrim("7"), "name", JPrim("n")),
   Obj1("password", JPrim("p")),
   JObj(<<>>),
   JArr(<<Obj2("id", JPrim("7"), "token", JPrim("s"))>>),
   JArr(<<JPrim("a"), JPrim("b")>>),
   JArr(<<JNull>>),
   JArr(<<>>),
   JPrim("abc"),
   JPrim("0"),
   JNull,
   Obj2("items", JArr(<<Obj1("name", JPrim("n"))>>), "has_more", JPrim("false")),
   Obj1("items", JArr(<<JPrim("a")>>)),
   Obj1("items", JArr(<<JNull>>))}

AnyObject == Schema("object", "none", FALSE, Undefined)

\* a response with content.examples, with content.example, or with neither
SampleResponses ==
  {Response(AnyObject, <<E("ex", Obj1("value", x))>>) : x \in ExampleValues}
  \cup {Response(AnyObject, <<E("default", x)>>) :
          x \in {y \in ExampleValues : Truthy(y)}}
  \cup {Response(sch, <<>>) :
          sch \in {ListSchema, AnyObject, Array, String, EmptySchema, NullSchema}}
  \cup {NoResponse}

SampleDocuments ==
  {<<Endpoint("/a", "get", "getA", <<>>, NoBody, Responses(r, NoResponse, NoResponse))>> :
     r \in SampleResponses}
  \cup {<<Endpoint("/a", "get", "getA", <<>>, NoBody, Responses(NoResponse, r, NoResponse))>> :
     r \in SampleResponses}

ValidTitle == <<"Triggers when", " ", "x">>

\* a run over one GET operation that is an action and a trigger
SampleInit ==
  /\ endpoints \in SampleDocuments
  /\ schemas = Components
  /\ actionConfig = <<>>
  /\ triggerConfig \in {<<E("t1", TriggerCfg("/a", TRUE, <<>>))>>,
                        <<E("t1", TriggerCfg("/a", FALSE, ValidTitle))>>}
  /\ GenStart
  /\ PageIdle
  /\ BodyIdle
  /\ ParserIdle

UnitBody ==
  ObjectSchema(<<E("f", StringWithDefault("df")),
                 E("g", Schema("number", "none", FALSE, "0")),
                 E("c", Schema("boolean", "none", FALSE, "true")),
                 E("d", Schema("string", "date-time", FALSE, "dd")),
                 E("day", Schema("string", "date", FALSE, "2020-01-01")),
                 E("s", Schema("array", "none", FALSE, "[]")),
                 E("items", Array)>>, {"f"})

UnitResponses ==
  {Response(AnyObject,
            <<E("ex", Obj1("value",
                Obj2("items", JArr(<<JObj(<<E("a", JPrim("1")),
                                            E("b", JPrim("2")),
                                            E("password", JPrim("p"))>>)>>),
                     "f", JPrim("1"))))>>),
   Response(AnyObject, <<E("ex", Obj1("value", Obj1("items", JArr(<<JNull>>))))>>),
   Response(AnyObject, <<>>)}

UnitPost(r) ==
  Endpoint("/a", "post", "postA",
           <<Param("id", "path", TRUE, String),
             Param("q", "query", FALSE, StringWithDefault("dq")),
             Param("n", "query", FALSE, Schema("integer", "none", FALSE, "1"))>>,
           Body(UnitBody), Responses(NoResponse, r, NoResponse))

Flatten(itemSchema, publicName, hasAdditional, additional) ==
  [NoSimplify EXCEPT !.enabled = TRUE, !.hasFlatten = TRUE, !.arrayField = "items",
                     !.itemSchema = itemSchema, !.publicName = publicName,
                     !.hasAdditional = hasAdditional,
                     !.additionalProperties = additional]

Simplifies ==
  {NoSimplify,
   Flatten("Item", "", FALSE, <<>>),
   Flatten("Item", "Group", FALSE, <<>>),
   Flatten("Item", "Group", TRUE, <<"f">>),
   Flatten("Item", "Group", TRUE, <<"zz">>),
   Flatten("Missing", "Group", FALSE, <<>>),
   Flatten("NoProps", "Group", FALSE, <<>>)}

HiddenBodySets == {{}, {"f"}, {"a", "b"}}

FieldDefaultSets ==
  {<<>>, <<E("f", "v")>>, <<E("g", "v")>>, <<E("a", "v")>>, <<E("zz", "v")>>,
   <<E("group", "v")>>, <<E("h", "v")>>}

HelperSets ==
  {<<>>, <<Helper("h", "a", "", "t1")>>, <<Helper("h", "zz", "number", "t2")>>,
   <<Helper("f", "a", "", "t1")>>, <<Helper("a", "b", "", "t1")>>}

DynamicSets ==
  {<<>>, <<DynamicField("f", "t1", "")>>, <<DynamicField("a", "t1", "name")>>,
   <<DynamicField("f", "tX", "")>>}

ActionCfg(hideQuery, hideBody, defaults, simplify, helpers, dynamic) ==
  [omit |-> FALSE, hideQueryParams |-> hideQuery,
   hideRequestBodyProperties |-> hideBody,
   hasFieldDefaults |-> defaults # <<>>, fieldDefaults |-> defaults,
   simplify |-> simplify, helperFields |-> helpers, dynamicFields |-> dynamic]

\* configurations that vary the structure of the fields
StructureConfigs ==
  {ActionCfg(hq, hb, d, sm, <<>>, <<>>) :
     hq \in {{}, {"q"}}, hb \in HiddenBodySets, d \in FieldDefaultSets,
     sm \in Simplifies}

\* configurations that vary the helper fields and the dynamic fields
WiringConfigs ==
  {ActionCfg({}, hb, d, sm, h, dy) :
     hb \in HiddenBodySets, d \in {<<>>, <<E("h", "v")>>},
     sm \in {NoSimplify, Flatten("Item", "Group", FALSE, <<>>)},
     h \in HelperSets, dy \in DynamicSets}

\* a run over one POST operation with a configuration of its fields
StructureInit ==
  /\ endpoints \in {<<UnitPost(r)>> : r \in UnitResponses}
  /\ schemas = Components
  /\ actionConfig \in {<<E("postA", c)>> : c \in StructureConfigs}
  /\ triggerConfig = <<>>
  /\ GenStart
  /\ PageIdle
  /\ BodyIdle
  /\ ParserIdle

\* a run over one POST operation with helper and dynamic fields, the source
\* triggers being configured on paths the document may or may not have
WiringInit ==
  /\ endpoints \in {<<UnitPost(Response(AnyObject, <<>>))>>,
                    <<GetA, UnitPost(Response(AnyObject, <<>>))>>}
  /\ schemas = Components
  /\ actionConfig \in {<<E("postA", c)>> : c \in WiringConfigs}
  /\ triggerConfig = <<E("t1", TriggerCfg("/a", TRUE, <<>>)),
                       E("t2", TriggerCfg("/b", TRUE, <<>>))>>
  /\ GenStart
  /\ PageIdle
  /\ BodyIdle
  /\ ParserIdle

\* an operation whose only success response is 204
NoContent(path, method) ==
  Endpoint(path, method, "putS", <<>>,
           Body(ObjectSchema(<<E("status", String), E("items", Array)>>, {})),
           Responses(NoResponse, NoResponse, Response(NullSchema, <<>>)))

NoContentConfigs ==
  {ActionCfg({}, hb, <<>>, [sm EXCEPT !.extractSingle = x], <<>>, <<>>) :
     hb \in {{}, {"status"}, {"success", "status"}},
     sm \in {NoSimplify, Flatten("Item", "", FALSE, <<>>),
             Flatten("Item", "Group", FALSE, <<>>)},
     x \in BOOLEAN}

\* a run over one operation that answers 204 only
NoContentInit ==
  /\ endpoints \in {<<NoContent(path, method)>> :
                      path \in {"/s", "/s/{id}"}, method \in {"put", "delete"}}
  /\ schemas = Components
  /\ actionConfig \in {<<E("putS", c)>> : c \in NoContentConfigs}
  /\ triggerConfig = <<>>
  /\ GenStart
  /\ PageIdle
  /\ BodyIdle
  /\ ParserIdle

\* operations of a document with references that may not resolve: the
\* schema of the parameter q, of the body property y and of the response
\* property x is a string, or null where its $ref did not resolve
GetD(q, x) ==
  Endpoint("/d", "get", "getD", <<Param("q", "query", FALSE, q)>>, NoBody,
           Responses(Response(ObjectSchema(<<E("items", Array), E("x", x)>>, {}),
                              <<>>),
                     NoResponse, NoResponse))

PostD(y, x) ==
  Endpoint("/d", "post", "postD", <<>>,
           Body(ObjectSchema(<<E("f", String), E("y", y)>>, {})),
           Responses(NoResponse,
                     Response(ObjectSchema(<<E("id", Integer), E("x", x)>>, {}), <<>>),
                     NoResponse))

\* a run over a document with references that may not resolve
DanglingInit ==
  /\ endpoints \in {<<GetD(q, x1), PostD(y, x2)>> :
                      q \in {String, NullSchema}, x1 \in {String, NullSchema},
                      y \in {String, NullSchema}, x2 \in {String, NullSchema}}
  /\ schemas = Components
  /\ actionConfig = <<>>
  /\ triggerConfig \in {<<>>, <<E("t1", TriggerCfg("/d", FALSE, ValidTitle))>>}
  /\ GenStart
  /\ PageIdle
  /\ BodyIdle
  /\ ParserIdle

Init ==
  RunInit \/ SampleInit \/ StructureInit \/ WiringInit \/ NoContentInit
  \/ DanglingInit

Next ==
  \/ ClassifyEndpoint
  \/ ClassifyEnd
  \/ HiddenTrigger
  \/ HiddenEnd
  \/ GenerateActionFile
  \/ ActionsEnd
  \/ GenerateTriggerFile
  \/ TriggersEnd

Spec == Init /\ [][Next]_vars

(***************************************************************************)
(* The request body code generateAction emits, as perform runs it.         *)
(* A value of bundle.inputData is kept with what JavaScript makes of it:   *)
(* n and nan are Number(value), items is what                              *)
(* split(',').map(parseInt).filter(not NaN) gives for a string and the     *)
(* elements for an array of numbers, objs the entries of an object.        *)
(***************************************************************************)
RValue(k, n, nan, s, items, objs) ==
  [k |-> k, n |-> n, nan |-> nan, s |-> s, items |-> items, objs |-> objs]

RUndefined == RValue("undefined", 0, TRUE, "", <<>>, <<>>)
RNull == RValue("null", 0, FALSE, "", <<>>, <<>>)
RNumber(n) == RValue("number", n, FALSE, "", <<>>, <<>>)
RBoolean(b) == RValue("boolean", IF b THEN 1 ELSE 0, FALSE, "", <<>>, <<>>)
RString(str, n, nan, items) == RValue("string", n, nan, str, items, <<>>)
RArray(items) ==
  RValue("array", IF Len(items) = 1 THEN items[1] ELSE 0, Len(items) > 1, "",
         items, <<>>)
RObject(entries) == RValue("object", 0, TRUE, "", <<>>, entries)
\* [item]: the array that holds the one item object
RItems(entries) == RValue("items", 0, TRUE, "", <<>>, entries)

\* bundle.inputData[key]
InputGet(data, key) ==
  IF key \in Keys(data) THEN Lookup(data, key).val ELSE RUndefined

SetEntry(entries, key, val) ==
  IF key \in Keys(entries)
  THEN [n \in 1..Len(entries) |->
          IF entries[n].key = key THEN E(key, val) ELSE entries[n]]
  ELSE Append(entries, E(key, val))

FlattenedKey(parentKey, key) == parentKey \o "__" \o key

getFieldTopLevel(parentKey, data, key) == InputGet(data, key)

\* get<arrayField>Field(key): the parent object, then the flattened key, then
\* the top level of bundle.inputData
getField(parentKey, data, key) ==
  LET parent == InputGet(data, parentKey)
  IN  IF parent.k = "object" /\ key \in Keys(parent.objs)
      THEN Lookup(parent.objs, key).val
      ELSE IF FlattenedKey(parentKey, key) \in Keys(data)
      THEN Lookup(data, FlattenedKey(parentKey, key)).val
      ELSE InputGet(data, key)

\* value !== undefined && value !== ''
Provided(v) == v.k # "undefined" /\ ~(v.k = "string" /\ v.s = "")

\* ... && value !== null && value !== 0
ProvidedId(v) == Provided(v) /\ v.k # "null" /\ ~(v.k = "number" /\ v.n = 0)

\* String(value).split('T')[0], or split(' ')[0]
DatePart(str) ==
  IF str = "2020-01-02T03:04" THEN "2020-01-02"
  ELSE IF str = "2020-01-02 03:04" THEN "2020-01-02"
  ELSE str

\* String(value)
StringOf(v) ==
  CASE v.k = "string" -> v.s
    [] v.k = "number" -> ToString(v.n)
    [] v.k = "boolean" -> IF v.n = 1 THEN "true" ELSE "false"
    [] v.k = "null" -> "null"
    [] v.k = "array" -> IF Len(v.items) = 1 THEN ToString(v.items[1]) ELSE "list"
    [] OTHER -> "[object Object]"

\* Boolean(value)
BooleanOf(v) ==
  CASE v.k = "number" -> v.n # 0
    [] v.k \in {"null", "undefined"} -> FALSE
    [] v.k = "boolean" -> v.n = 1
    [] v.k = "string" -> v.s # ""
    [] OTHER -> TRUE

\* the statement emitted for one body field: the value assigned to it, or
\* RUndefined when nothing is assigned
coerced(schema, v, isDynamicField) ==
  IF ~Provided(v) THEN RUndefined
  ELSE IF ~schema.nul /\ schema.type = "string" /\ schema.format = "date"
  THEN RString(DatePart(StringOf(v)), 0, TRUE, <<>>)
  ELSE IF ~schema.nul /\ schema.type \in {"number", "integer"}
  THEN IF isDynamicField
       THEN IF ProvidedId(v) /\ ~v.nan /\ v.n # 0 THEN RNumber(v.n)
            ELSE RUndefined
       ELSE IF v.nan THEN v ELSE RNumber(v.n)
  ELSE IF ~schema.nul /\ schema.type = "boolean"
  THEN IF v.k = "boolean" THEN v
       ELSE IF v.k = "string" THEN RBoolean(v.s \in {"true", "True", "TRUE"})
       ELSE RBoolean(BooleanOf(v))
  ELSE IF ~schema.nul /\ schema.type = "array"
  THEN IF v.k = "string" THEN RArray(v.items)
       ELSE IF v.k = "array" THEN v
       ELSE RUndefined
  ELSE v

\* the schema of a property, NullSchema when the object has no such property
PropertySchema(schema, key) ==
  IF ~schema.nul /\ schema.hasProps /\ key \in Keys(schema.properties)
  THEN Lookup(schema.properties, key).val
  ELSE NullSchema

pathParamKeys(endpoint) ==
  {pathParams(endpoint)[n].name : n \in 1..Len(pathParams(endpoint))}

\* is the body built by the flattenArray code
flattensBody(cfg, comps) ==
  /\ usesFlatten(cfg)
  /\ ~ItemSchema(comps, cfg.simplify.itemSchema).nul
  /\ ItemSchema(comps, cfg.simplify.itemSchema).hasProps

\* the schema the body fields are taken from
bodySchema(endpoint, cfg, comps) ==
  IF usesFlatten(cfg) THEN ItemSchema(comps, cfg.simplify.itemSchema)
  ELSE endpoint.requestBody.schema

\* the keys of the fields a value is assigned to, in order
bodyFieldKeys(endpoint, cfg, comps) ==
  LET schema == bodySchema(endpoint, cfg, comps)
      props == IF schema.nul \/ ~schema.hasProps THEN <<>> ELSE schema.properties
      kept == SelectSeq(props,
                LAMBDA e : /\ e.key \notin pathParamKeys(endpoint)
                           /\ e.key \notin cfg.hideRequestBodyProperties)
  IN  [n \in 1..Len(kept) |-> kept[n].key]

\* the expression a field is read with
accessor(cfg, data, key) ==
  IF usesPublicName(cfg) THEN getField(ParentKey(cfg.simplify.publicName), data, key)
  ELSE InputGet(data, key)

RECURSIVE assignFields(_, _, _, _, _)
assignFields(keys, schema, cfg, data, acc) ==
  IF keys = <<>> THEN acc
  ELSE LET key == Head(keys)
           val == coerced(PropertySchema(schema, key), accessor(cfg, data, key),
                          key \in Keys(cfg.dynamicFields))
       IN  assignFields(Tail(keys), schema, cfg, data,
                        IF val = RUndefined THEN acc ELSE SetEntry(acc, key, val))

\* the distinct mapTo targets of the helper fields, in configuration order
RECURSIVE helperTargets(_, _)
helperTargets(helpers, seen) ==
  IF helpers = <<>> THEN <<>>
  ELSE IF Head(helpers).mapTo = "" \/ Head(helpers).mapTo \in seen
  THEN helperTargets(Tail(helpers), seen)
  ELSE <<Head(helpers).mapTo>>
       \o helperTargets(Tail(helpers), seen \cup {Head(helpers).mapTo})

\* helperFieldsByTarget[target]: the keys of the helpers mapped to a target
helperKeysOf(cfg, target) ==
  LET mapped == SelectSeq(cfg.helperFields, LAMBDA h : h.mapTo = target)
  IN  [n \in 1..Len(mapped) |-> mapped[n].key]

\* [...new Set(ids)]: the first occurrence of every value, in order
RECURSIVE Dedup(_, _)
Dedup(ids, seen) ==
  IF ids = <<>> THEN <<>>
  ELSE IF Head(ids) \in seen THEN Dedup(Tail(ids), seen)
  ELSE <<Head(ids)>> \o Dedup(Tail(ids), seen \cup {Head(ids)})

\* the numbers pushed to <target>HelperIds
RECURSIVE helperIds(_)
helperIds(values) ==
  IF values = <<>> THEN <<>>
  ELSE (IF ProvidedId(Head(values)) /\ ~Head(values).nan /\ Head(values).n # 0
        THEN <<Head(values).n>> ELSE <<>>) \o helperIds(Tail(values))

\* <target>Existing: the value already assigned when it is an array, else what
\* the input holds
existingIds(assigned, input) ==
  IF assigned.k = "array" THEN assigned.items
  ELSE IF Provided(input) /\ input.k \in {"string", "array"} THEN input.items
  ELSE <<>>

mergedKeepingZero(existing, ids) == Dedup(existing \o ids, {})

\* filter(id => id > 0) applied to the deduplicated union
merged(existing, ids) ==
  SelectSeq(Dedup(existing \o ids, {}), LAMBDA id : id > 0)

\* the statements emitted for one target; obj is the object they assign to
mergeTarget(obj, target, isArrayField, values, input) ==
  IF isArrayField
  THEN LET all == merged(existingIds(InputGet(obj, target), input), helperIds(values))
       IN  IF Len(all) > 0 THEN SetEntry(obj, target, RArray(all)) ELSE obj
  ELSE IF helperIds(<<values[1]>>) # <<>>
       THEN SetEntry(obj, target, RNumber(values[1].n))
       ELSE obj

\* the expression a helper field is read with
helperAccessor(cfg, isNested, data, key) ==
  IF isNested /\ usesPublicName(cfg)
  THEN getField(ParentKey(cfg.simplify.publicName), data, key)
  ELSE InputGet(data, key)

RECURSIVE mergeHelpers(_, _, _, _, _)
mergeHelpers(targets, schema, cfg, data, obj) ==
  IF targets = <<>> THEN obj
  ELSE LET target == Head(targets)
           keys == helperKeysOf(cfg, target)
           targetSchema == PropertySchema(schema, target)
           isNested == ~targetSchema.nul
           values == [n \in 1..Len(keys) |->
                        helperAccessor(cfg, isNested, data, keys[n])]
       IN  mergeHelpers(Tail(targets), schema, cfg, data,
             mergeTarget(obj, target,
                         ~targetSchema.nul /\ targetSchema.type = "array",
                         values, accessor(cfg, data, target)))

\* the additionalProperties of a simplified action, copied to the body
RECURSIVE copyAdditional(_, _, _, _)
copyAdditional(others, cfg, data, body) ==
  IF others = <<>> THEN body
  ELSE LET key == Head(others).key
           v == InputGet(data, key)
           hasDefault == cfg.hasFieldDefaults /\ key \in Keys(cfg.fieldDefaults)
           next ==
             IF hasDefault /\ Head(others).type \in {"boolean", "number"}
             THEN SetEntry(body, key,
                    IF v.k # "undefined" THEN v
                    ELSE RString(Lookup(cfg.fieldDefaults, key).val, 0, TRUE, <<>>))
             ELSE IF v.k # "undefined" THEN SetEntry(body, key, v)
             ELSE body
       IN  copyAdditional(Tail(others), cfg, data, next)

otherFields(endpoint, cfg) ==
  SelectSeq(additionalFields(endpoint, cfg),
            LAMBDA f : /\ f.key \notin pathParamKeys(endpoint)
                       /\ f.key \notin cfg.hideRequestBodyProperties)

\* the endpoint and the configuration perform was generated from
performEndpoint == endpoints[1]
performConfig == configOf(performEndpoint.operationId)

\* the per-field statements: they fill the item of a simplified action, the
\* request body otherwise; a simplified action whose item schema is missing
\* sends a requestBody that was never declared
BuildFields ==
  /\ bpc = "fields"
  /\ LET cfg == performConfig
         built == assignFields(bodyFieldKeys(performEndpoint, cfg, schemas),
                               bodySchema(performEndpoint, cfg, schemas),
                               cfg, inputData, <<>>)
     IN  IF usesFlatten(cfg) /\ ~flattensBody(cfg, schemas)
         THEN /\ bpc' = "error"
              /\ UNCHANGED <<arrayItem, reqBody>>
         ELSE /\ bpc' = "helpers"
              /\ IF usesFlatten(cfg)
                 THEN arrayItem' = built /\ reqBody' = <<>>
                 ELSE reqBody' = built /\ arrayItem' = <<>>
  /\ UNCHANGED <<inputData, previous, round, responseJson, performed>>
  /\ UNCHANGED <<genVars, pageVars, parserVars>>

\* the helper field statements
MergeHelperFields ==
  /\ bpc = "helpers"
  /\ LET cfg == performConfig
         schema == bodySchema(performEndpoint, cfg, schemas)
         targets == helperTargets(cfg.helperFields, {})
     IN  IF usesFlatten(cfg)
         THEN /\ arrayItem' = mergeHelpers(targets, schema, cfg, inputData, arrayItem)
              /\ UNCHANGED reqBody
         ELSE /\ reqBody' = mergeHelpers(targets, schema, cfg, inputData, reqBody)
              /\ UNCHANGED arrayItem
  /\ bpc' = "send"
  /\ UNCHANGED <<inputData, previous, round, responseJson, performed>>
  /\ UNCHANGED <<genVars, pageVars, parserVars>>

\* requestBody.<arrayField> = [<arrayField>Item], then the additional
\* properties; the body is what the request is sent with
SendBody ==
  /\ bpc = "send"
  /\ LET cfg == performConfig
     IN  reqBody' =
           IF usesFlatten(cfg)
           THEN copyAdditional(otherFields(performEndpoint, cfg), cfg, inputData,
                  SetEntry(reqBody, cfg.simplify.arrayField, RItems(arrayItem)))
           ELSE reqBody
  /\ bpc' = "done"
  /\ UNCHANGED <<inputData, arrayItem, previous, round, responseJson, performed>>
  /\ UNCHANGED <<genVars, pageVars, parserVars>>

(***************************************************************************)
(* The actions perform is run for, and the input it is run with.           *)
(***************************************************************************)
PerformBody ==
  ObjectSchema(<<E("a", String), E("b", Integer), E("tags", Array),
                 E("items", Array),
                 E("c", Schema("boolean", "none", FALSE, Undefined)),
                 E("day", Schema("string", "date", FALSE, Undefined))>>, {})

PerformPost ==
  Endpoint("/p", "post", "postP", <<>>, Body(PerformBody),
           Responses(NoResponse, NoResponse, NoResponse))

\* five helpers that share the array property `tags`, two that share the
\* number `owner`
TagHelpers ==
  <<Helper("h1", "tags", "integer", ""), Helper("h2", "tags", "integer", ""),
    Helper("h3", "tags", "integer", ""), Helper("h4", "tags", "integer", ""),
    Helper("h5", "tags", "integer", ""), Helper("ho", "owner", "integer", ""),
    Helper("ho2", "owner", "integer", "")>>

StrX == RString("x", 0, TRUE, <<>>)
StrEmpty == RString("", 0, FALSE, <<>>)
Str1 == RString("1", 1, FALSE, <<1>>)
Str3 == RString("3", 3, FALSE, <<3>>)
Str57 == RString("5,7", 0, TRUE, <<5, 7>>)
StrDateTime == RString("2020-01-02T03:04", 0, TRUE, <<2020>>)

\* what a user can leave in, or put into, a helper dropdown
HelperValues == {RUndefined, RNull, RNumber(0), RNumber(3), RNumber(5), Str3, StrEmpty}

\* the values of h1..h5: the two first vary, or the five are 3, 5, 5, 0, null
HelperVectors ==
  {<<x, y, RUndefined, RUndefined, RUndefined>> : x, y \in HelperValues}
  \cup {<<RNumber(3), RNumber(5), RNumber(5), RNumber(0), RNull>>}

ExistingTags ==
  {RUndefined, RArray(<<5, 7>>), Str57, RArray(<<0>>), RArray(<<0, 0>>),
   RArray(<<5, 5>>), StrEmpty, RArray(<<>>)}

\* the values of ho and ho2
OwnerVectors ==
  {<<RUndefined, RUndefined>>, <<RNumber(3), RNumber(4)>>, <<RNull, RNumber(4)>>}

\* the entries whose value is not undefined
Compact(entries) == SelectSeq(entries, LAMBDA e : e.val # RUndefined)

\* where the editor puts the values of the item: at the top level, in the
\* parent object, or under flattened keys
Placed(how, parentKey, itemEntries, topEntries) ==
  IF how = "nested"
  THEN <<E(parentKey, RObject(Compact(itemEntries)))>> \o Compact(topEntries)
  ELSE IF how = "flat"
  THEN [n \in 1..Len(Compact(itemEntries)) |->
          E(FlattenedKey(parentKey, Compact(itemEntries)[n].key),
            Compact(itemEntries)[n].val)] \o Compact(topEntries)
  ELSE Compact(itemEntries) \o Compact(topEntries)

Placements(cfg) ==
  IF usesPublicName(cfg) THEN {"top", "nested", "flat"} ELSE {"top"}

MergeConfigs ==
  {ActionCfg({}, hb, <<>>, sm, TagHelpers, <<>>) :
     hb \in {{}, {"tags"}},
     sm \in {NoSimplify, Flatten("Tagged", "", FALSE, <<>>),
             Flatten("Tagged", "Group", FALSE, <<>>)}}

WrapConfigs ==
  {ActionCfg({}, hb, d, sm, <<>>, dyn) :
     hb \in {{}, {"b"}},
     d \in {<<>>, <<E("c", "false")>>},
     sm \in {NoSimplify, Flatten("Item", "", FALSE, <<>>),
             Flatten("Item", "Group", FALSE, <<>>),
             Flatten("Item", "Group", TRUE, <<"c", "day">>),
             Flatten("Missing", "Group", FALSE, <<>>)},
     dyn \in {<<>>, <<DynamicField("b", "listB", "id")>>}}

PerformStart(cfg, data) ==
  /\ endpoints = <<PerformPost>>
  /\ schemas = Components
  /\ actionConfig = <<E("postP", cfg)>>
  /\ triggerConfig = <<>>
  /\ pc = "idle" /\ idx = 0 /\ actions = <<>> /\ triggers = <<>>
  /\ addedTriggerKeys = {} /\ files = <<>> /\ fatal = NoError /\ console = {}
  /\ PageIdle
  /\ ParserIdle
  /\ inputData = data
  /\ arrayItem = <<>> /\ reqBody = <<>> /\ previous = <<>>
  /\ round = 1 /\ bpc = "fields"
  /\ responseJson = JUndefined /\ performed = JUndefined

MergeInit ==
  \E cfg \in MergeConfigs, hv \in HelperVectors, tags \in ExistingTags,
     owner \in OwnerVectors :
    \E how \in Placements(cfg) :
      PerformStart(cfg,
        Placed(how, ParentKey(cfg.simplify.publicName),
               <<E("tags", tags), E("h1", hv[1]), E("h2", hv[2]), E("h3", hv[3]),
                 E("h4", hv[4]), E("h5", hv[5]), E("ho", owner[1]),
                 E("ho2", owner[2])>>,
               <<>>))

WrapInit ==
  \E cfg \in WrapConfigs, a \in {RUndefined, StrX, StrEmpty},
     b \in {RUndefined, RNumber(1), Str1, RNumber(0), StrX},
     c \in {RUndefined, RBoolean(TRUE), RString("True", 0, TRUE, <<>>)},
     day \in {RUndefined, StrDateTime} :
    \E how \in Placements(cfg) :
      PerformStart(cfg,
        Placed(how, ParentKey(cfg.simplify.publicName),
               <<E("a", a), E("b", b)>>, <<E("c", c), E("day", day)>>))

BodyInit == MergeInit \/ WrapInit

\* the action is run again on the body it has just built: every array that
\* helpers were merged into becomes the existing value of its target
Resubmit ==
  /\ bpc = "done" /\ round = 1
  /\ performConfig.helperFields # <<>>
  /\ LET cfg == performConfig
         built == IF usesFlatten(cfg) THEN arrayItem ELSE reqBody
         tags == InputGet(built, "tags")
         parentKey == ParentKey(cfg.simplify.publicName)
         parent == InputGet(inputData, parentKey)
         cleared == SelectSeq(inputData,
                      LAMBDA e : e.key \notin {"tags", FlattenedKey(parentKey, "tags")})
     IN  inputData' =
           IF usesPublicName(cfg) /\ parent.k = "object"
           THEN SetEntry(inputData, parentKey,
                  RObject(SetEntry(parent.objs, "tags", tags)))
           ELSE SetEntry(cleared, "tags", tags)
  /\ previous' = reqBody
  /\ round' = 2
  /\ bpc' = "fields"
  /\ arrayItem' = <<>> /\ reqBody' = <<>>
  /\ UNCHANGED <<responseJson, performed>>
  /\ UNCHANGED <<genVars, pageVars, parserVars>>

BodyNext == BuildFields \/ MergeHelperFields \/ SendBody \/ Resubmit

SpecBody == BodyInit /\ [][BodyNext]_vars

(***************************************************************************)
(* The response code of a generated action, run on what the server sent.   *)
(***************************************************************************)
\* what the emitted response code returns for response.json
returnedValue(endpoint, cfg, json) ==
  LET code == responseCode(endpoint, cfg)
      arrayProperty == getArrayPropertyName(successResponse(endpoint).schema)
  IN  CASE code = "return { success: true, status: 204 }" -> Sample204
        [] code = "return Array.isArray(result) ? { <noun>s: result } : result" ->
             IF IsArray(json) THEN JObj(<<E("<noun>s", json)>>) ELSE json
        [] code = "return Array.isArray(result) ? { data: result } : result" ->
             IF IsArray(json) THEN JObj(<<E("data", json)>>) ELSE json
        [] code = "return response.json.<arrayProperty>[0]" ->
             IF /\ Truthy(json) /\ json.k = "obj" /\ ObjHas(json, arrayProperty)
                /\ IsArray(ObjGet(json, arrayProperty))
                /\ Len(ObjGet(json, arrayProperty).items) > 0
             THEN ObjGet(json, arrayProperty).items[1]
             ELSE json
        [] OTHER -> json

\* z.request has been sent
SendRequestOf ==
  /\ bpc = "send"
  /\ bpc' = "waiting"
  /\ UNCHANGED <<inputData, arrayItem, reqBody, previous, round, responseJson,
                 performed>>
  /\ UNCHANGED <<genVars, pageVars, parserVars>>

\* what the server can answer
ResponseBodies ==
  {JArr(<<>>), JArr(<<Obj1("id", JPrim("7"))>>),
   Obj1("items", JArr(<<Obj1("id", JPrim("7"))>>)), Obj1("items", JArr(<<>>)),
   Obj1("name", JPrim("n")), JObj(<<>>), JNull}

\* the response arrives and the response code returns
ReceiveResponse ==
  /\ bpc = "waiting"
  /\ \E json \in ResponseBodies :
       /\ responseJson' = json
       /\ performed' = returnedValue(performEndpoint, performConfig, json)
  /\ bpc' = "returned"
  /\ UNCHANGED <<inputData, arrayItem, reqBody, previous, round>>
  /\ UNCHANGED <<genVars, pageVars, parserVars>>

\* the success response of the operation: a schema of any kind, JSON content
\* without a schema, no JSON content, or 204 only
ResponseShapes ==
  {Responses(Response(sch, <<>>), NoResponse, NoResponse) :
     sch \in {ListSchema, AnyObject, Array, String, EmptySchema, NullSchema}}
  \cup {Responses(NoResponse, Response(sch, <<>>), NoResponse) :
          sch \in {ListSchema, Array, EmptySchema}}
  \cup {Responses(NoResponse, NoResponse, NoResponse),
        Responses(NoResponse, NoResponse, Response(NullSchema, <<>>))}

ResponseInit ==
  /\ \E r \in ResponseShapes :
       endpoints = <<Endpoint("/r", "get", "getR", <<>>, NoBody, r)>>
  /\ \E x \in BOOLEAN :
       actionConfig = <<E("getR", ActionCfg({}, {}, <<>>,
                                            [NoSimplify EXCEPT !.enabled = x,
                                                               !.extractSingle = x],
                                            <<>>, <<>>))>>
  /\ schemas = Components
  /\ triggerConfig = <<>>
  /\ pc = "idle" /\ idx = 0 /\ actions = <<>> /\ triggers = <<>>
  /\ addedTriggerKeys = {} /\ files = <<>> /\ fatal = NoError /\ console = {}
  /\ PageIdle
  /\ ParserIdle
  /\ inputData = <<>> /\ arrayItem = <<>> /\ reqBody = <<>> /\ previous = <<>>
  /\ round = 1 /\ bpc = "send"
  /\ responseJson = JUndefined /\ performed = JUndefined

ResponseNext == SendRequestOf \/ ReceiveResponse

SpecResponse == ResponseInit /\ [][ResponseNext]_vars

(***************************************************************************)
(* parser.resolveSchema: one step per call and per return.                 *)
(***************************************************************************)
\* the calls the engine nests before it raises RangeError
MaxStack == 6

\* a schema of the document: a $ref, a composition, or a node with
\* sub-schemas (properties, items)
Node(kind, ref, children) == [kind |-> kind, ref |-> ref, children |-> children]

Leaf == Node("string", "", <<>>)
Ref(name) == Node("ref", name, <<>>)
NullNode == Node("null", "", <<>>)

\* resolveRef(ref) for `#/components/schemas/<name>`: the component, or null
resolveRef(components, name) ==
  IF name \in Keys(components) THEN Lookup(components, name).val ELSE NullNode

\* how many calls of resolveSchema the call on a schema makes itself
subCalls(components, schema) ==
  CASE schema.kind = "ref" ->
         IF resolveRef(components, schema.ref) = NullNode THEN 0 ELSE 1
    [] schema.kind \in {"oneOf", "anyOf"} -> IF schema.children = <<>> THEN 0 ELSE 1
    [] schema.kind \in {"allOf", "object", "array"} -> Len(schema.children)
    [] OTHER -> 0

\* the schema the n-th of these calls is made on
subSchema(components, schema, n) ==
  IF schema.kind = "ref" THEN resolveRef(components, schema.ref)
  ELSE schema.children[n]

Frame(schema, next) == [schema |-> schema, next |-> next]

\* what a call returns once its own calls have returned: null for a $ref
\* that does not resolve, the result of the inner call for a $ref and for
\* oneOf/anyOf, a schema object otherwise
resolved(components, schema, inner) ==
  CASE schema.kind = "null" -> "null"
    [] schema.kind = "ref" ->
         IF resolveRef(components, schema.ref) = NullNode THEN "null" ELSE inner
    [] schema.kind \in {"oneOf", "anyOf"} /\ schema.children # <<>> -> inner
    [] OTHER -> "schema"

\* the properties of the schemas of an allOf that resolved to an object
RECURSIVE mergedProperties(_)
mergedProperties(nodes) ==
  IF nodes = <<>> THEN <<>>
  ELSE (IF Head(nodes).kind = "object" THEN Head(nodes).children ELSE <<>>)
       \o mergedProperties(Tail(nodes))

\* the schema resolveSchema(schema) returns; depth is the depth of the call
RECURSIVE resolveTree(_, _, _)
resolveTree(components, schema, depth) ==
  LET inner(n) == resolveTree(components, subSchema(components, schema, n), depth + 1)
      all == [n \in 1..Len(schema.children) |-> inner(n)]
  IN  IF depth > MaxStack THEN Node("RangeError", "", <<>>)
      ELSE CASE schema.kind = "null" -> NullNode
             [] schema.kind = "ref" ->
                  IF resolveRef(components, schema.ref) = NullNode THEN NullNode
                  ELSE inner(1)
             [] schema.kind = "allOf" -> Node("object", "", mergedProperties(all))
             [] schema.kind \in {"oneOf", "anyOf"} /\ schema.children # <<>> -> inner(1)
             [] schema.kind \in {"object", "array"} -> Node(schema.kind, "", all)
             [] OTHER -> schema

Handed(use, schema) == [use |-> use, schema |-> schema]

\* the innermost call calls resolveSchema on its next sub-schema
ResolveCall ==
  /\ rpc = "call"
  /\ LET top == callStack[Len(callStack)]
     IN  /\ top.next <= subCalls(registry, top.schema)
         /\ Len(callStack) < MaxStack
         /\ callStack' =
              Append([callStack EXCEPT ![Len(callStack)].next = top.next + 1],
                     Frame(subSchema(registry, top.schema, top.next), 1))
  /\ UNCHANGED <<registry, returned, rpc, cacheFile, fetchCount, loadRun, handed>>
  /\ UNCHANGED <<genVars, pageVars, bodyVars>>

\* the call does not fit on the stack: RangeError ends the resolution
ResolveOverflow ==
  /\ rpc = "call"
  /\ callStack[Len(callStack)].next
       <= subCalls(registry, callStack[Len(callStack)].schema)
  /\ Len(callStack) = MaxStack
  /\ rpc' = "RangeError"
  /\ UNCHANGED <<registry, callStack, returned, cacheFile, fetchCount, loadRun,
                 handed>>
  /\ UNCHANGED <<genVars, pageVars, bodyVars>>

\* the innermost call returns
ResolveReturn ==
  /\ rpc = "call"
  /\ LET top == callStack[Len(callStack)]
     IN  /\ top.next > subCalls(registry, top.schema)
         /\ returned' = resolved(registry, top.schema, returned)
  /\ callStack' = SubSeq(callStack, 1, Len(callStack) - 1)
  /\ rpc' = IF Len(callStack) = 1 THEN "done" ELSE "call"
  /\ handed' = IF Len(callStack) = 1
               THEN Append(handed, Handed("endpoint",
                                          resolveTree(registry, callStack[1].schema, 1)))
               ELSE handed
  /\ UNCHANGED <<registry, cacheFile, fetchCount, loadRun>>
  /\ UNCHANGED <<genVars, pageVars, bodyVars>>

\* generateAction takes the item schema of simplify.flattenArray from
\* mapper.schemas, the component registry of the document, and hands it to
\* schemaPropertiesToZapierFields when it has properties
HandItemSchema ==
  /\ rpc = "done"
  /\ \E itemSchemaName \in {"A", "B", "Gone"} :
       LET itemSchema == resolveRef(registry, itemSchemaName)
       IN  handed' = IF itemSchema.kind = "object"
                     THEN Append(handed, Handed("itemSchema", itemSchema))
                     ELSE handed
  /\ rpc' = "mapped"
  /\ UNCHANGED <<registry, callStack, returned, cacheFile, fetchCount, loadRun>>
  /\ UNCHANGED <<genVars, pageVars, bodyVars>>

\* what a property, an item or a member of a composition is in a document
SubSchemas == {Leaf, Ref("A"), Ref("B"), Ref("Gone")}

ComponentShapes ==
  SubSchemas
  \cup {Node("object", "", <<c>>) : c \in SubSchemas}
  \cup {Node("object", "", <<c, d>>) : c, d \in SubSchemas}
  \cup {Node("array", "", <<c>>) : c \in SubSchemas}
  \cup {Node("allOf", "", <<c, d>>) : c, d \in SubSchemas}
  \cup {Node("oneOf", "", <<c>>) : c \in SubSchemas}
  \cup {Node("anyOf", "", <<>>)}

ResolveInit ==
  /\ registry \in {<<E("A", a), E("B", b)>> : a, b \in ComponentShapes}
  /\ callStack \in {<<Frame(root, 1)>> :
                      root \in {Ref("A"), Ref("Gone"),
                                Node("object", "", <<Ref("A"), Ref("Gone")>>)}}
  /\ returned = "" /\ rpc = "call"
  /\ cacheFile = NoFile /\ fetchCount = 0 /\ loadRun = NoLoad /\ handed = <<>>
  /\ GenIdle /\ PageIdle /\ BodyIdle

ResolveNext == ResolveCall \/ ResolveOverflow \/ ResolveReturn \/ HandItemSchema

\* the engine runs a call to its end
SpecResolve == ResolveInit /\ [][ResolveNext]_vars /\ WF_vars(ResolveNext)

(***************************************************************************)
(* OpenAPIParser.load(forceUpdate): the cache file, the fetch and the      *)
(* parse.  The server and the file system are free in what they answer.    *)
(***************************************************************************)
\* the texts a server or a file can hold: an empty one, two documents and
\* one that is not YAML
Texts == {"", "doc1", "doc2", "{bad"}

CachedFile(text) == [exists |-> TRUE, content |-> text]

\* loadFromCache(): the content of the cache file, null when there is none
loadFromCache == IF cacheFile.exists THEN cacheFile.content ELSE "null"

\* !content, for the content load() holds before it decides to fetch:
\* undefined under forceUpdate, else what loadFromCache() returned
falsyWhenAbsent(forceUpdate) ==
  IF forceUpdate THEN TRUE ELSE loadFromCache = "null"

falsy(forceUpdate) ==
  IF forceUpdate THEN TRUE
  ELSE loadFromCache = "null" \/ loadFromCache = ""

\* yaml.load(content) throws on a text that is not YAML
yamlThrows(text) == text = "{bad"

\* this.schema = yaml.load(content): assigned when the parse succeeds
parsed(text) == IF yamlThrows(text) THEN loadRun.schema ELSE text

Load(url, forceUpdate, position, text, fetched, error) ==
  [pc |-> position, url |-> url, forceUpdate |-> forceUpdate, content |-> text,
   fetched |-> fetched, before |-> cacheFile, error |-> error,
   schema |-> IF position = "done" THEN parsed(text) ELSE loadRun.schema]

\* load(forceUpdate) of a URL up to its await: the cache is read unless
\* forceUpdate, and the fetch is started when there is no content
LoadUrl ==
  /\ loadRun.pc \in {"idle", "done", "raised"}
  /\ \E forceUpdate \in BOOLEAN :
       IF falsy(forceUpdate) \/ forceUpdate
       THEN /\ loadRun' = Load(TRUE, forceUpdate, "fetching", "", "pending", "")
            /\ fetchCount' = 1
       ELSE /\ loadRun' = Load(TRUE, forceUpdate,
                               IF yamlThrows(loadFromCache) THEN "raised"
                               ELSE "done",
                               loadFromCache, "none",
                               IF yamlThrows(loadFromCache) THEN "YAMLException"
                               ELSE "")
            /\ fetchCount' = 0
  /\ UNCHANGED <<cacheFile, registry, callStack, returned, rpc, handed>>
  /\ UNCHANGED <<genVars, pageVars, bodyVars>>

\* the response is ok: its text is saved to the cache, then parsed
FetchOk ==
  /\ loadRun.pc = "fetching"
  /\ \E text \in Texts :
       /\ cacheFile' = CachedFile(text)
       /\ loadRun' = [loadRun EXCEPT !.content = text, !.fetched = "ok",
                                     !.pc = IF yamlThrows(text) THEN "raised"
                                            ELSE "done",
                                     !.error = IF yamlThrows(text)
                                               THEN "YAMLException" ELSE "",
                                     !.schema = parsed(text)]
  /\ UNCHANGED <<fetchCount, registry, callStack, returned, rpc, handed>>
  /\ UNCHANGED <<genVars, pageVars, bodyVars>>

\* fetch rejects, or the response is not ok: fetchFromUrl throws
FetchFail ==
  /\ loadRun.pc = "fetching"
  /\ \E cause \in {"fetch rejected", "Failed to fetch OpenAPI schema"} :
       loadRun' = [loadRun EXCEPT !.fetched = "failed", !.pc = "raised",
                                  !.error = cause]
  /\ UNCHANGED <<cacheFile, fetchCount, registry, callStack, returned, rpc, handed>>
  /\ UNCHANGED <<genVars, pageVars, bodyVars>>

\* load() of a file path: the file is read, or the load throws
LoadFile ==
  /\ loadRun.pc \in {"idle", "done", "raised"}
  /\ \E forceUpdate \in BOOLEAN, found \in BOOLEAN, text \in Texts :
       loadRun' = Load(FALSE, forceUpdate,
                       IF found /\ ~yamlThrows(text) THEN "done" ELSE "raised",
                       IF found THEN text ELSE "", "none",
                       IF ~found THEN "OpenAPI schema file not found"
                       ELSE IF yamlThrows(text) THEN "YAMLException" ELSE "")
  /\ fetchCount' = 0
  /\ UNCHANGED <<cacheFile, registry, callStack, returned, rpc, handed>>
  /\ UNCHANGED <<genVars, pageVars, bodyVars>>

\* a parser is constructed when the cache directory is empty
LoadInit ==
  /\ cacheFile = NoFile /\ fetchCount = 0 /\ loadRun = NoLoad /\ handed = <<>>
  /\ registry = <<>> /\ callStack = <<>> /\ returned = "" /\ rpc = "idle"
  /\ GenIdle /\ PageIdle /\ BodyIdle

LoadNext == LoadUrl \/ FetchOk \/ FetchFail \/ LoadFile

SpecLoad == LoadInit /\ [][LoadNext]_vars

(***************************************************************************)
(* Claims about the generator (checked under Spec).                        *)
(***************************************************************************)
Written(dir) == SelectSeq(files, LAMBDA f : f.dir = dir)

\* the fields of a list with the children of its parent fields
WithChildren(fields) == Range(fields) \cup Range(AllChildren(fields))

Bindings(file) ==
  {f.dynamic : f \in {x \in WithChildren(file.descriptor.inputFields) :
                        x.dynamic # NoDynamic}}

\* C1: the sample of every written action and trigger is an object with at
\* least one key, and the sample of a trigger has an `id` key.
C1_SampleNonEmpty ==
  \A f \in Range(files) :
    /\ f.descriptor.sample.k = "obj"
    /\ f.descriptor.sample.items # <<>>
    /\ f.dir = "triggers" => ObjHas(f.descriptor.sample, "id")

\* C2: every dynamic binding of a written action names a trigger that is in
\* the registry of the triggers generated in this run.
C2_BindingsNameGeneratedTriggers ==
  \A f \in Range(Written("actions")) :
    \A b \in Bindings(f) : b.trigger \in addedTriggerKeys

PrimitiveTypes == {"string", "number", "boolean", "datetime"}

\* C3: every emitted input field of an action has either a primitive type or
\* at least one child, and never both.
C3_FieldExclusivity ==
  \A f \in Range(Written("actions")) :
    \A field \in WithChildren(f.descriptor.inputFields) :
      (field.type \in PrimitiveTypes) # (field.children # <<>>)

C5_TriggerKeysUnique ==
  /\ \A n, m \in 1..Len(triggers) : triggers[n].key = triggers[m].key => n = m
  /\ addedTriggerKeys = Keys(triggers)
  /\ pc = "hidden" => fatal = NoError

C5_Witness ==
  /\ pc = "hidden"
  /\ idx = 2
  /\ triggerConfig[1].val.hidden
  /\ getEndpoints(triggerConfig[1].val.endpoint) # <<>>
  /\ Len(triggers) = 1
  /\ triggers[1].key = triggerConfig[1].key

\* C6: when a run is ended by a fatal configuration error, no file of that
\* run has been written.
C6_NoPartialOutput ==
  pc = "exit" => files = <<>>

\* the input fields of the action that generateAction was last called for
LastActionFields ==
  LET action == actions[idx - 1]
  IN  fieldsAfterHelpers(
        fieldsAfterBody(action.endpoint, action.actionConfig, schemas),
        action.actionConfig, schemas, Keys(triggerConfig))

\* C7: generateAction throws for fieldDefaults exactly when some key names no
\* input field, top-level or child of a grouped parent: the keys reported
\* name no field, the error names the operation, and a written action has
\* a field for each of its fieldDefaults keys.
C7_DefaultsKeyValidation ==
  /\ fatal.error = "fieldDefaults"
       => /\ fatal.offending # {}
          /\ fatal.operation = actions[idx - 1].endpoint.operationId
          /\ \A key \in fatal.offending :
               key \notin Keys(LastActionFields)
                          \cup Keys(AllChildren(LastActionFields))
  /\ \A n \in 1..Len(actions) :
       (\E f \in Range(Written("actions")) : f.name = actions[n].key)
         => \A key \in Keys(actions[n].actionConfig.fieldDefaults) :
              \E f \in Range(Written("actions")) :
                /\ f.name = actions[n].key
                /\ key \in Keys(f.descriptor.fields)
                           \cup Keys(AllChildren(f.descriptor.fields))

\* C8: a configured visible trigger without a title that starts with
\* "Triggers when " ends the run before anything is generated, and every
\* written visible trigger has a description that starts with that phrase.
C8_VisibleTitles ==
  /\ (\E n \in 1..Len(triggerConfig) : titleError(triggerConfig[n].val) # "")
       => files = <<>> /\ pc # "done"
  /\ \A f \in Range(Written("triggers")) :
       ~f.descriptor.hidden => startsWith(f.descriptor.description, RequiredPrefix)

(***************************************************************************)
(* Claims about the request body perform builds (checked under SpecBody).  *)
(***************************************************************************)
\* the object the per-field and the helper statements assign to
BuiltObject == IF usesFlatten(performConfig) THEN arrayItem ELSE reqBody

\* the values of the helpers mapped to `tags`, as the merge reads them
TagHelperValues ==
  LET keys == helperKeysOf(performConfig, "tags")
  IN  [n \in 1..Len(keys) |-> helperAccessor(performConfig, TRUE, inputData, keys[n])]

\* the ids the input holds for `tags` before the merge
ExistingTagIds == existingIds(RUndefined, accessor(performConfig, inputData, "tags"))

PositiveIds(ids) == SelectSeq(ids, LAMBDA id : id > 0)

\* what the per-field statements alone assign to `tags`
AssignedTags ==
  InputGet(assignFields(bodyFieldKeys(performEndpoint, performConfig, schemas),
                        bodySchema(performEndpoint, performConfig, schemas),
                        performConfig, inputData, <<>>), "tags")

FieldKeys(fields) == [n \in 1..Len(fields) |-> fields[n].key]

\* a flattenArray action on `items` whose item schema has the fields a and b
FlattensItem(cfg) ==
  /\ usesFlatten(cfg)
  /\ cfg.simplify.itemSchema = "Item"
  /\ cfg.hideRequestBodyProperties = {}
  /\ ~cfg.simplify.hasAdditional

\* the value the user gave for an item field, wherever the editor put it
GivenValue(key) ==
  LET group == InputGet(inputData, "group")
  IN  IF group.k = "object" THEN InputGet(group.objs, key)
      ELSE IF FlattenedKey("group", key) \in Keys(inputData)
      THEN InputGet(inputData, FlattenedKey("group", key))
      ELSE InputGet(inputData, key)

\* C12: a flattenArray action on `items` with the item fields a (string) and
\* b (number) has exactly the input fields a and b, or, with the public name
\* "Group", exactly the parent field `group` with the children a and b; its
\* body is always the one built item wrapped as the only element of `items`,
\* and the input a = "x", b = 1 gives the body {items: [{a: "x", b: 1}]},
\* grouped or not.
C12_FlattenWrapsOneItem ==
  LET cfg == performConfig
      action == generateAction(performEndpoint, cfg, schemas, {})
      fields == action.descriptor.fields
  IN  (bpc # "idle" /\ FlattensItem(cfg)) =>
        /\ ~cfg.hasFieldDefaults =>
             IF action.threw THEN FALSE
             ELSE IF usesPublicName(cfg)
             THEN /\ FieldKeys(fields) = <<"group">>
                  /\ fields[1].hasChildren
                  /\ FieldKeys(fields[1].children) = <<"a", "b">>
             ELSE /\ FieldKeys(fields) = <<"a", "b">>
                  /\ \A n \in 1..Len(fields) : ~fields[n].hasChildren
        /\ bpc = "done" => reqBody = <<E("items", RItems(arrayItem))>>
        /\ (/\ bpc = "done"
            /\ GivenValue("a") = StrX
            /\ GivenValue("b") = RNumber(1))
           => reqBody = <<E("items", RItems(<<E("a", StrX), E("b", RNumber(1))>>))>>

\* the grouped action has built the body from values held by the parent object
C12_Witness ==
  /\ bpc = "done"
  /\ FlattensItem(performConfig) /\ usesPublicName(performConfig)
  /\ InputGet(inputData, "group") = RObject(<<E("a", StrX), E("b", RNumber(1))>>)
  /\ reqBody = <<E("items", RItems(<<E("a", StrX), E("b", RNumber(1))>>))>>

(***************************************************************************)
(* More claims about the generator (checked under Spec).                   *)
(***************************************************************************)
\* C13: an action on an endpoint whose only success response is 204 is
\* written with the sample {success: true, status: 204} and returns that
\* object without reading the response, whatever the path, the method and
\* the action configuration are.
C13_NoContentContract ==
  \A n \in 1..Len(actions) :
    is204Response(actions[n].endpoint) =>
      /\ responseCode(actions[n].endpoint, actions[n].actionConfig)
           = "return { success: true, status: 204 }"
      /\ \A f \in Range(Written("actions")) :
           f.name = actions[n].key => f.descriptor.sample = Sample204

(***************************************************************************)
(* Claims about the parser (checked under SpecResolve).                    *)
(***************************************************************************)
\* C14: resolveSchema returns on every schema graph, also on one whose
\* references lead back to a schema that is being resolved.
C14_ResolveSchemaReturns == <>(rpc = "done")

(***************************************************************************)
(* Claims about documents with references that do not resolve (Spec).      *)
(***************************************************************************)
NullProperties(schema) ==
  IF schema.nul \/ ~schema.hasProps THEN {}
  ELSE {schema.properties[n].key :
          n \in {m \in 1..Len(schema.properties) : schema.properties[m].val.nul}}

\* the parameters and body properties whose schema is null
NullInputs(endpoint) ==
  {endpoint.parameters[n].name :
     n \in {m \in 1..Len(endpoint.parameters) : endpoint.parameters[m].schema.nul}}
  \cup NullProperties(endpoint.requestBody.schema)

NullOutputs(endpoint) ==
  NullProperties(endpoint.responses.r200.schema)
  \cup NullProperties(endpoint.responses.r201.schema)

HasNullSchema(endpoint) == NullInputs(endpoint) \cup NullOutputs(endpoint) # {}

\* C15: when a parameter schema, a body property or a response property of
\* the document is null because its $ref did not resolve, the run has no
\* fatal error, and the field written for such a parameter or property is a
\* string field.
C15_NullSchemaRecoverable ==
  (\E n \in 1..Len(endpoints) : HasNullSchema(endpoints[n])) =>
    /\ fatal = NoError
    /\ \A f \in Range(files) :
         \A x \in WithChildren(f.descriptor.fields) :
           (\E n \in 1..Len(endpoints) :
              /\ endpoints[n].path = f.descriptor.path
              /\ endpoints[n].method = f.descriptor.method
              /\ x.key \in NullInputs(endpoints[n]))
           => x.type = "string"

(***************************************************************************)
(* Claims about the frame of the generation steps (Spec).                  *)
(***************************************************************************)
\* C16: generating an action or a trigger leaves the endpoints as they were
\* extracted: their parameters, request body, response schemas and response
\* examples.
C16_EndpointsUnchanged == [][endpoints' = endpoints]_vars

(***************************************************************************)
(* Claims about visibility and omission (Spec).                            *)
(***************************************************************************)
\* the written action files of a classified action
FilesOf(action) ==
  {f \in Range(Written("actions")) : f.name = action.key}

\* C17: after the visibility filtering of generateAction no field made from
\* a query parameter has a key of hideQueryParams, and no field made from
\* the request body, at the top level or among the children of a parent
\* field, has a key of hideRequestBodyProperties; the filtering comes before
\* the helper fields are added, so a written field with a hidden body key is
\* a helper field or a parameter.
C17_HiddenFieldsFiltered ==
  \A n \in 1..Len(actions) :
    LET endpoint == actions[n].endpoint
        cfg == actions[n].actionConfig
        params == paramFields(endpoint, cfg)
        body == bodyFields(endpoint, cfg, schemas)
    IN  /\ \A i \in (Len(pathParams(endpoint)) + 1)..Len(params) :
             params[i].key \notin cfg.hideQueryParams
        /\ \A x \in WithChildren(body) :
             x.key \notin cfg.hideRequestBodyProperties
        /\ \A f \in FilesOf(actions[n]) :
             \A x \in WithChildren(f.descriptor.fields) :
               x.key \in cfg.hideRequestBodyProperties
                 => x.key \in Keys(cfg.helperFields) \cup Keys(params)

\* an action was written whose configuration hides a query parameter and
\* properties of the item of its request body
C17_Witness ==
  \E n \in 1..Len(actions) :
    /\ FilesOf(actions[n]) # {}
    /\ actions[n].actionConfig.hideQueryParams = {"q"}
    /\ actions[n].actionConfig.hideRequestBodyProperties = {"a", "b"}
    /\ usesPublicName(actions[n].actionConfig)
    /\ "q" \in {queryParams(actions[n].endpoint)[i].name :
                  i \in 1..Len(queryParams(actions[n].endpoint))}

\* the action configuration of the endpoint has omit: true
omitted(endpoint) == configOf(endpoint.operationId).omit

\* C18: for an endpoint whose action configuration has omit: true no action
\* file and no trigger file, visible or hidden, built on that endpoint is
\* written, and the omission itself never ends the run.
C18_OmittedEndpointProducesNothing ==
  /\ \A n \in 1..Len(actions) :
       FilesOf(actions[n]) # {} => ~omitted(actions[n].endpoint)
  /\ \A n \in 1..Len(triggers) :
       (\E f \in Range(Written("triggers")) : f.name = triggers[n].key)
         => ~omitted(triggers[n].endpoint)
  /\ (\A n \in 1..Len(endpoints) : omitted(endpoints[n])) => pc # "exit"

(***************************************************************************)
(* Claims about the emitted samples (Spec).                                *)
(***************************************************************************)
\* a key of `names` at any depth of a JSON value
RECURSIVE HasKeyIn(_, _)
HasKeyIn(j, names) ==
  IF j.k = "obj"
  THEN \E n \in 1..Len(j.items) :
         j.items[n].key \in names \/ HasKeyIn(j.items[n].val, names)
  ELSE IF j.k = "arr"
  THEN \E n \in 1..Len(j.items) : HasKeyIn(j.items[n], names)
  ELSE FALSE

\* C19: no sample written by generateAction or generateTrigger has a
\* sensitive key (password, passwd, pwd, secret, token, apiKey, api_key) at
\* any depth, whatever the examples of the document and whatever reshaping
\* (first array item, publicName nesting) gave the sample its form.
C19_NoSensitiveKeyInSample ==
  \A n \in 1..Len(files) : ~HasKeyIn(files[n].descriptor.sample, SensitiveFields)

(***************************************************************************)
(* Claims about load() (SpecLoad).                                         *)
(***************************************************************************)
\* C20: for a URL source, load(forceUpdate) without forceUpdate uses a
\* present cache file and does not fetch; with forceUpdate, or without a
\* cache file, it fetches exactly once; after a successful fetch the cache
\* file holds exactly the fetched text; a failed fetch raises and leaves the
\* cache file as it was.
C20_CacheProtocol ==
  loadRun.url =>
    /\ (~loadRun.forceUpdate /\ loadRun.before.exists) =>
         /\ fetchCount = 0
         /\ cacheFile = loadRun.before
         /\ loadRun.content = loadRun.before.content
    /\ (loadRun.forceUpdate \/ ~loadRun.before.exists) => fetchCount = 1
    /\ loadRun.fetched = "ok" => cacheFile = CachedFile(loadRun.content)
    /\ loadRun.fetched = "failed" =>
         loadRun.pc = "raised" /\ cacheFile = loadRun.before

\* the cache file load() found holds a text that is not empty
CacheHit == loadRun.before.exists /\ loadRun.before.content # ""

\* the protocol of C20 where an empty cache file counts as no cache file:
\* it is fetched over like a missing one
C20_CacheProtocolNonEmpty ==
  loadRun.url =>
    /\ (~loadRun.forceUpdate /\ CacheHit) =>
         /\ fetchCount = 0
         /\ cacheFile = loadRun.before
         /\ loadRun.content = loadRun.before.content
         /\ loadRun.fetched = "none"
    /\ (loadRun.forceUpdate \/ ~CacheHit) =>
         /\ fetchCount = 1
         /\ loadRun.fetched \in {"pending", "ok", "failed"}
    /\ loadRun.fetched = "pending" <=> loadRun.pc = "fetching"
    /\ loadRun.fetched = "ok" => cacheFile = CachedFile(loadRun.content)
    /\ loadRun.fetched = "failed" =>
         /\ loadRun.pc = "raised" /\ cacheFile = loadRun.before
         /\ loadRun.error \in {"fetch rejected", "Failed to fetch OpenAPI schema"}

\* a load without forceUpdate ended on the text an earlier load had fetched
\* and saved, without fetching
C20_Witness ==
  /\ loadRun.url /\ ~loadRun.forceUpdate /\ loadRun.pc = "done"
  /\ loadRun.before = CachedFile("doc1")
  /\ loadRun.content = "doc1"
  /\ fetchCount = 0

(***************************************************************************)
(* Claims about the order of generate() (Spec).                            *)
(***************************************************************************)
\* the keys both classification passes register: a trigger configuration
\* whose endpoint is the path of a GET endpoint, matched on an endpoint that
\* is not omitted or hidden
RegisteredKeys ==
  {triggerConfig[i].key : i \in
     {j \in 1..Len(triggerConfig) :
        \E n \in 1..Len(endpoints) :
          /\ endpoints[n].method = "get"
          /\ endpoints[n].path = triggerConfig[j].val.endpoint
          /\ triggerConfig[j].val.hidden \/ ~omitted(endpoints[n])}}

\* generateAction has been called, or is about to be
WiringStarted == pc \in {"actions", "triggers", "done"} \/ files # <<>>

\* C21: when generateAction is first called both classification passes are
\* over: the registered trigger keys are those of the endpoint-matched and
\* of the remaining hidden triggers and they do not change any more, and
\* the input fields written for an action are those generateAction gives
\* for it in every later state, whatever its position in the loop.
C21_RegistryBeforeWiring ==
  WiringStarted =>
    /\ addedTriggerKeys = RegisteredKeys
    /\ {triggers[n].key : n \in 1..Len(triggers)} = addedTriggerKeys
    /\ \A n \in 1..Len(actions) :
         \A f \in FilesOf(actions[n]) :
           f.descriptor.inputFields =
             generateAction(actions[n].endpoint, actions[n].actionConfig,
                            schemas, Keys(triggerConfig)).descriptor.inputFields

\* an action wired to the trigger t1 was written after the pass over the
\* hidden triggers registered t1 on an omitted endpoint
C21_Witness ==
  /\ \E f \in Range(Written("actions")) :
       \E b \in Bindings(f) : b.trigger = "t1"
  /\ \E n \in 1..Len(triggers) :
       triggers[n].key = "t1" /\ triggers[n].hidden
                              /\ omitted(triggers[n].endpoint)

(***************************************************************************)
(* Claims about the keys of the input fields (Spec).                       *)
(***************************************************************************)
UniqueKeys(fields) ==
  \A i, j \in 1..Len(fields) : i # j => fields[i].key # fields[j].key

\* C22: in the input fields of every written action no two top-level fields
\* have the same key and no two children of one parent have the same key.
C22_UniqueKeys ==
  \A f \in Range(Written("actions")) :
    /\ UniqueKeys(f.descriptor.fields)
    /\ \A n \in 1..Len(f.descriptor.fields) :
         UniqueKeys(f.descriptor.fields[n].children)

(***************************************************************************)
(* Claims about a scalar helper target (SpecBody).                         *)
(***************************************************************************)
\* the values of the helpers mapped to `owner`, in configuration order
OwnerHelperValues ==
  LET keys == helperKeysOf(performConfig, "owner")
      nested == ~PropertySchema(bodySchema(performEndpoint, performConfig, schemas),
                                "owner").nul
  IN  [n \in 1..Len(keys) |->
         helperAccessor(performConfig, nested, inputData, keys[n])]

\* C23: when several helper fields share a scalar mapTo target, the body
\* holds for the target the first helper value, in configuration order, that
\* is not empty, null or 0: a later value is used when the first is empty.
C23_FirstNonEmptyHelper ==
  (bpc = "done" /\ performConfig.helperFields # <<>>) =>
    LET ids == helperIds(OwnerHelperValues)
    IN  ids # <<>> => InputGet(BuiltObject, "owner") = RNumber(ids[1])

\* C24: when the merge for the array-typed target `tags` is left with no
\* value (every helper value and every value that was there before is
\* empty, null or not positive), the body is sent without the target,
\* whether or not the target is an input field of its own.
C24_EmptyMergeOmitsTarget ==
  (bpc = "done" /\ performConfig.helperFields # <<>>) =>
    (PositiveIds(Dedup(ExistingTagIds \o helperIds(TagHelperValues), {})) = <<>>
       => InputGet(BuiltObject, "tags") = RUndefined)

(***************************************************************************)
(* Claims about the schemas handed to the field mapping (SpecResolve).     *)
(***************************************************************************)
\* a $ref, or an allOf, oneOf or anyOf with members, anywhere in a schema
RECURSIVE Unresolved(_)
Unresolved(schema) ==
  \/ schema.kind = "ref"
  \/ schema.kind \in {"allOf", "oneOf", "anyOf"} /\ schema.children # <<>>
  \/ \E n \in 1..Len(schema.children) : Unresolved(schema.children[n])

\* C25: no schema handed to the field mapping holds an unresolved
\* reference or composition: not the schemas of an extracted endpoint, and
\* not the item schema of simplify.flattenArray.
C25_NoUnresolvedReference ==
  \A n \in 1..Len(handed) : ~Unresolved(handed[n].schema)

(***************************************************************************)
(* Claims about the response code of an action (SpecResponse).             *)
(***************************************************************************)
\* the server answered what the success response declares
Conforms ==
  LET response == successResponse(performEndpoint)
  IN  IF is204Response(performEndpoint) THEN responseJson = JNull
      ELSE (response.present /\ ~response.schema.nul) =>
             /\ response.schema.type = "array" => IsArray(responseJson)
             /\ response.schema.type = "object" => responseJson.k = "obj"
             /\ response.schema.type \notin {"array", "object", "none"} =>
                  ~IsArray(responseJson)

\* C26: the response code of an action never returns a bare array: an array
\* is wrapped into an object, under the pluralized noun when the schema is an
\* array and under `data` when there is no schema information; an object is
\* returned as it is, or its first array item with extractSingle.
C26_NeverBareArray ==
  (bpc = "returned" /\ Conforms) =>
    /\ ~IsArray(performed)
    /\ IsArray(responseJson) =>
         performed \in {JObj(<<E("<noun>s", responseJson)>>),
                        JObj(<<E("data", responseJson)>>)}

(***************************************************************************)
(* Claims about the request of a generated trigger (Spec).                 *)
(***************************************************************************)
\* the trigger a written trigger file was generated from
TriggerOf(f) == CHOOSE t \in Range(triggers) : t.key = f.name

\* C27: the file generateTrigger emits holds the pagination loop exactly when
\* the trigger is not hidden, its query parameters include both `limit` and
\* `offset`, and the response schema exposes `has_more` or an array property
\* was detected or configured; a hidden trigger gets the single request.
C27_PaginationLoopEmitted ==
  \A f \in Range(Written("triggers")) :
    LET t == TriggerOf(f)
        response == triggerResponse(t.endpoint)
    IN  /\ (f.descriptor.request = PaginationLoop) <=>
             /\ ~t.hidden
             /\ \E n \in 1..Len(t.endpoint.parameters) :
                  t.endpoint.parameters[n] =
                    [t.endpoint.parameters[n] EXCEPT !.name = "limit", !.in = "query"]
             /\ \E n \in 1..Len(t.endpoint.parameters) :
                  t.endpoint.parameters[n] =
                    [t.endpoint.parameters[n] EXCEPT !.name = "offset", !.in = "query"]
             /\ \/ /\ response.present /\ ~response.schema.nul
                   /\ "has_more" \in Keys(response.schema.properties)
                \/ detectedArrayProp(t) # ""
        /\ t.hidden => f.descriptor.request = SingleRequest

\* the plan generateTrigger computes follows the condition; the rendered
\* file does not take it
C27_PlanFollowsCondition ==
  \A f \in Range(Written("triggers")) :
    LET t == TriggerOf(f)
    IN  /\ requestCode(t) = PaginationLoop <=>
             /\ ~t.hidden
             /\ hasQueryParam(t.endpoint, "limit")
             /\ hasQueryParam(t.endpoint, "offset")
             /\ detectedArrayProp(t) # "" \/ hasHasMoreProperty(t)
        /\ renderedRequest(TriggerTemplate \cup {"requestCode"}, t) = requestCode(t)

(***************************************************************************)
(* Claims about the bindings of helper fields (Spec).                      *)
(***************************************************************************)
\* the helper fields generateAction added for this action, as children of
\* the grouped parent or at the top level
AddedHelpers(action) ==
  LET body == fieldsAfterBody(action.endpoint, action.actionConfig, schemas)
      nested == nestedHelpers(body, action.actionConfig, schemas)
  IN  Range(nested)
      \cup {h \in Range(action.actionConfig.helperFields) :
              h.key \notin Keys(body) \cup Keys(nested)}

\* C28: a helper field configured with dynamicFields whose source trigger is
\* in the trigger configuration carries that binding in the emitted input
\* fields of the action, as a top-level field or as a child of the grouped
\* parent, with or without a dynamicFields configuration of the action.
C28_HelperBindingEmitted ==
  \A n \in 1..Len(actions) :
    \A f \in FilesOf(actions[n]) :
      \A h \in AddedHelpers(actions[n]) :
        (h.sourceTrigger # "" /\ h.sourceTrigger \in Keys(triggerConfig)) =>
          \E x \in WithChildren(f.descriptor.inputFields) :
            /\ x.key = h.key
            /\ x.dynamic # NoDynamic
            /\ x.dynamic.trigger = h.sourceTrigger

(***************************************************************************)
(* Claims about the keys of the written actions (Spec).                    *)
(***************************************************************************)
\* C29: every action is written and registered in the index under the key
\* its own descriptor carries, also when the endpoint has no operationId and
\* the descriptor key is derived from the path.
C29_WrittenKeyIsDescriptorKey ==
  \A f \in Range(Written("actions")) : f.name = f.descriptor.key

(***************************************************************************)
(* Claims about the declaration of the request body (SpecBody).            *)
(***************************************************************************)
\* C30: an action whose endpoint has a request body sends `requestBody`
\* only after its request body code has declared it, for every action
\* configuration, also when simplify.flattenArray names an item schema that
\* is missing from the components or has no properties.
C30_RequestBodyDeclared ==
  performEndpoint.requestBody.present => bpc # "error"

====
